---- MODULE Spec2Model ----
(***************************************************************************)
(* Model of the translation-and-recoil engine of fps-aim-assist            *)
(* (src/core.py, class Core) together with the calls the control panel     *)
(* (src/gui.py) makes on it.                                               *)
(*                                                                         *)
(* Four execution contexts are modelled:                                   *)
(*   ptr  - the pointer source's delivery thread (on_move / on_click)      *)
(*   wd   - the idle watchdog thread            (reset_stick_loop)         *)
(*   rc   - the recoil simulator thread         (recoil_loop)              *)
(*   ctl  - the controlling thread              (start / stop / set_enabled)*)
(* Every context has a program counter; one action is one atomic step of   *)
(* one context.  A step ends wherever the code waits for a lock or reads a *)
(* flag that another context writes without holding that lock.             *)
(*                                                                         *)
(* Time is the monotonic clock in milliseconds.                            *)
(*                                                                         *)
(* Several specifications share the actions: Spec is the whole engine;     *)
(* the others run a part of it (the pipeline of on_move, the commit path,  *)
(* the recoil arithmetic, the trigger) in an environment of its own.       *)
(***************************************************************************)
EXTENDS Integers, Sequences, FiniteSets, TLC

VARIABLES
    \* ---- Core fields (src/core.py __init__) ----
    running,            \* self.running
    enabled,            \* self.enabled
    gamepad,            \* self.gamepad is not None (device sink attached)
    recoil_enabled,     \* self.recoil_enabled
    recoil_active,      \* self.recoil_active
    recoil_offset_y,    \* self.recoil_offset_y
    is_moving,          \* self.is_moving
    last_sent_x,        \* self.last_sent_x
    last_sent_y,        \* self.last_sent_y
    last_x,             \* self.last_x
    last_y,             \* self.last_y
    last_move_time,     \* self.last_move_time
    last_update_time,   \* self._last_update_time
    stats_pending,      \* self.stats_pending
    stats,              \* self.stats (the three totals)
    mouse_lock,         \* self.mouse_lock    : "free" or the holder
    gamepad_lock,       \* self.gamepad_lock  : "free" or the holder
    stats_lock,         \* self.stats_lock    : "free" or the holder
    listener,           \* self.mouse_listener: "none", "on", "stopped"
    \* ---- live configuration (self.config, shared with the control panel) ----
    cfg_sens,           \* self.config.sens, a rational <<numerator, denominator>>
    cfg_deadzone,       \* self.config.deadzone
    cfg_recoil_strength, \* self.config.recoil_strength
    \* ---- the virtual controller (vgamepad) ----
    dev_axes,           \* axes set by right_joystick(), not yet flushed
    dev_report,         \* vector last flushed to the device by update()
    dev_by,             \* who flushed it: "none", "commit" (update_gamepad_stick)
                        \* or "reset" (watchdog, set_enabled, stop)
    \* ---- environment ----
    now,                \* monotonic clock, ms
    btn_down,           \* the primary button of the pointer source is held
    \* ---- execution contexts ----
    ptrPc, mvX, mvY, mvT, mvSX, mvSY, ckPressed, cmX, cmY,
    wdPc,
    wdValue,            \* _update_stats: the pending values the loop has added
                        \* to the totals and not yet zeroed
    rcPc,
    ctlPc,
    \* ---- observation (history) variables ----
    lifecycle,          \* "new"; "started": the last start() returned True and
                        \* stop() was not called since; "start_failed": the
                        \* last start() returned False; "stopped"
    stopReturned,       \* stop() returned; no start()/set_enabled() since
    disabledClean,      \* set_enabled(False) returned; no set_enabled(True) since
    rcTicks,            \* number of recoil ticks that changed the offset
    counted,            \* per counter, the number of increments of the pending
                        \* bucket made by the hot path so far
    integrated,         \* the pointer position sampled last (at construction
                        \* or by start()) plus every delta on_move has computed
                        \* since
    motion_time         \* the time of the last pointer event that was not
                        \* filtered by the squared deadzone (or of the sample)

coreVars == <<running, enabled, gamepad, recoil_enabled, recoil_active,
              recoil_offset_y, is_moving, last_sent_x, last_sent_y,
              last_x, last_y, last_move_time, last_update_time,
              stats_pending, stats, mouse_lock, gamepad_lock, listener>>
devVars  == <<dev_axes, dev_report, dev_by>>
ptrVars  == <<ptrPc, mvX, mvY, mvT, mvSX, mvSY, ckPressed>>
obsVars  == <<lifecycle, stopReturned, disabledClean, rcTicks>>
cfgVars  == <<cfg_sens, cfg_deadzone, cfg_recoil_strength>>
stVars   == <<stats_lock, counted, wdValue>>
histVars == <<integrated, motion_time>>
cmVars   == <<cmX, cmY>>
extVars  == <<cfgVars, btn_down, cmVars, stVars, histVars, histVars>>
vars     == <<coreVars, devVars, now, extVars, ptrVars, wdPc, rcPc, ctlPc, obsVars>>

----------------------------------------------------------------------------
(* Bounds of the model *)

\* total number of counted movements in one behaviour
MaxMoves == 1
\* total number of counted trigger presses in one behaviour
MaxClicks == 1
\* number of offset-changing recoil ticks in one behaviour
MaxRecoilTicks == 1
\* number of clock advances in one behaviour
MaxTicks == 1

(* Program constants *)

MAX == 32767
MIN == -32768
CENTER == 0
\* Config defaults (src/config.py)
SENS == 8000
DEADZONE == 3
RESET_DELAY_MS == 10
RECOIL_STRENGTH == 600
MAX_RECOIL_OFFSET == 6000
\* self._update_threshold = 0.001 s
UPDATE_THRESHOLD_MS == 1

\* self.deadzone_squared = self.config.deadzone ** 2, computed in __init__
deadzone_squared == DEADZONE * DEADZONE

(* Inputs of the environment *)

\* absolute pointer coordinates the pointer source reports
XCoords == {0, 3}
YCoords == {0}
\* buttons of the pointer source
Buttons == {"left", "right"}
\* one clock advance: longer than the reset delay
TickStep == RESET_DELAY_MS + 1
\* reading of the monotonic clock when the engine is constructed: the clock
\* has been running for at least the update threshold
StartTime == UPDATE_THRESHOLD_MS

----------------------------------------------------------------------------
(* Pure helpers *)

Abs(v) == IF v < 0 THEN -v ELSE v
MaxOf(a, b) == IF a >= b THEN a ELSE b
MinOf(a, b) == IF a <= b THEN a ELSE b

\* int(n / d) of Python for d > 0: truncation toward zero
TruncDiv(n, d) == IF n >= 0 THEN n \div d ELSE -((-n) \div d)

\* math.floor of a rational <<numerator, denominator>>, denominator > 0
Floor(q) == q[1] \div q[2]

\* variant of clamp: the value is passed on unlimited
clamp_Unlimited(val, min_val, max_val) == val

\* Core.clamp: max(min_val, min(max_val, math.floor(val))) for an integral
\* val; a fractional value is passed through Floor by the caller
clamp(val, min_val, max_val) == MaxOf(min_val, MinOf(max_val, val))

\* on_move, lines 118-126: the candidate stick vector of an accepted delta.
\* sens is the rational read from config.sens; the raw values are rationals
\* over its denominator.
raw_x(dx, sens) == <<dx * sens[1], sens[2]>>
\* variant of raw_y: the offset is added whether or not recoil is active
raw_y_AlwaysOffset(dy, sens, active, renabled, offset) ==
    <<(0 - dy) * sens[1] + offset * sens[2], sens[2]>>
raw_y(dy, sens, active, renabled, offset) ==
    <<(0 - dy) * sens[1] + (IF active /\ renabled THEN offset ELSE 0) * sens[2],
      sens[2]>>
\* variant of StickAxis: the scaled value is truncated toward zero
StickAxis_Truncates(raw, deadzone) ==
    IF Abs(raw[1]) <= deadzone * raw[2]
      THEN CENTER
      ELSE clamp(TruncDiv(raw[1], raw[2]), MIN, MAX)
\* lines 125-126: CENTER if abs(raw) <= config.deadzone else clamp(raw, MIN, MAX)
StickAxis(raw, deadzone) ==
    IF Abs(raw[1]) <= deadzone * raw[2]
      THEN CENTER
      ELSE clamp(Floor(raw), MIN, MAX)

\* variant of RecoilActiveTick: the result is rounded down
RecoilActiveTick_Floors(offset) ==
    LET target_offset == MaxOf(offset - RECOIL_STRENGTH, 0 - MAX_RECOIL_OFFSET)
    IN  (10 * offset + 6 * (target_offset - offset)) \div 10

\* variant of RecoilActiveTick: the offset drops by the whole strength
RecoilActiveTick_FullStep(offset) == offset - RECOIL_STRENGTH

\* variant of RecoilActiveTick: the target is not limited to -max_offset
RecoilActiveTick_Unlimited(offset) ==
    TruncDiv(10 * offset + 6 * ((offset - RECOIL_STRENGTH) - offset), 10)

\* recoil_loop, lines 187-191: one active tick
\*   int(offset + (target - offset) * 0.6)
RecoilActiveTick(offset) ==
    LET target_offset == MaxOf(offset - RECOIL_STRENGTH, 0 - MAX_RECOIL_OFFSET)
    IN  TruncDiv(10 * offset + 6 * (target_offset - offset), 10)

\* variant of RecoilRecoverTick: the step toward 0 is 1.4 times the distance
RecoilRecoverTick_Overshoots(offset) ==
    TruncDiv(10 * offset + 14 * (0 - offset), 10)

\* recoil_loop, lines 195-203: one recovery tick
RecoilRecoverTick(offset) ==
    LET speed10 == IF Abs(offset) > 1000 THEN 4 ELSE 6
        o2 == TruncDiv(10 * offset + speed10 * (0 - offset), 10)
    IN  IF Abs(o2) < 10 THEN 0 ELSE o2

----------------------------------------------------------------------------
(* Initial state: the state after Core.__init__ *)

Init ==
    /\ running = TRUE
    /\ enabled = FALSE
    /\ gamepad \in BOOLEAN          \* _initialize_gamepad may fail
    /\ recoil_enabled = TRUE
    /\ recoil_active = FALSE
    /\ recoil_offset_y = 0
    /\ is_moving = FALSE
    /\ last_sent_x = CENTER
    /\ last_sent_y = CENTER
    /\ last_x = 0
    /\ last_y = 0
    /\ last_move_time = 0
    /\ integrated = <<0, 0>>
    /\ motion_time = 0
    /\ last_update_time = 0
    /\ stats_pending = [total_movements |-> 0, total_clicks |-> 0, recoil_activations |-> 0]
    /\ stats = [total_movements |-> 0, total_clicks |-> 0, recoil_activations |-> 0]
    /\ mouse_lock = "free"
    /\ gamepad_lock = "free"
    /\ listener = "none"
    /\ cfg_sens = <<SENS, 1>>
    /\ cfg_deadzone = DEADZONE
    /\ cfg_recoil_strength = RECOIL_STRENGTH
    /\ stats_lock = "free"
    /\ wdValue = [total_movements |-> 0, total_clicks |-> 0, recoil_activations |-> 0]
    /\ counted = [total_movements |-> 0, total_clicks |-> 0, recoil_activations |-> 0]
    /\ dev_axes = <<CENTER, CENTER>>
    /\ dev_report = <<CENTER, CENTER>>
    /\ dev_by = "none"
    /\ now = StartTime
    /\ btn_down = FALSE
    /\ ptrPc = "idle"
    /\ mvX = 0 /\ mvY = 0 /\ mvT = 0 /\ mvSX = 0 /\ mvSY = 0
    /\ ckPressed = FALSE
    /\ wdPc = "dead"
    /\ rcPc = "dead"
    /\ ctlPc = "idle"
    /\ cmX = 0 /\ cmY = 0
    /\ lifecycle = "new"
    /\ stopReturned = FALSE
    /\ disabledClean = FALSE
    /\ rcTicks = 0

----------------------------------------------------------------------------
(* The clock *)

Tick ==
    /\ now + TickStep <= StartTime + MaxTicks * TickStep
    /\ now' = now + TickStep
    /\ UNCHANGED <<coreVars, devVars, extVars, ptrVars, wdPc, rcPc, ctlPc, obsVars>>

----------------------------------------------------------------------------
(* Pointer context: Core.on_move *)

\* variant of OnMoveEntry: an event dropped by the throttle is still
\* recorded as the last observed position
OnMoveEntry_ThrottleObserves(x, y) ==
    /\ ptrPc = "idle"
    /\ counted.total_movements < MaxMoves
    /\ IF ~enabled \/ ~gamepad
         THEN UNCHANGED <<last_update_time, ptrPc, mvX, mvY, mvT, last_x, last_y>>
         ELSE IF now - last_update_time < UPDATE_THRESHOLD_MS
                THEN /\ last_x' = x
                     /\ last_y' = y
                     /\ UNCHANGED <<last_update_time, ptrPc, mvX, mvY, mvT>>
                ELSE /\ last_update_time' = now
                     /\ mvX' = x /\ mvY' = y /\ mvT' = now
                     /\ ptrPc' = "mv_lock"
                     /\ UNCHANGED <<last_x, last_y>>
    /\ UNCHANGED <<running, enabled, gamepad, recoil_enabled, recoil_active,
                   recoil_offset_y, is_moving, last_sent_x, last_sent_y,
                   last_move_time, stats_pending, stats,
                   mouse_lock, gamepad_lock, listener,
                   devVars, now, extVars, mvSX, mvSY, ckPressed, wdPc, rcPc, ctlPc, obsVars>>

\* lines 97-103: entry check and throttle
OnMoveArrives(x, y) ==
    /\ ptrPc = "idle"
    /\ IF ~enabled \/ ~gamepad
         THEN UNCHANGED <<last_update_time, ptrPc, mvX, mvY, mvT>>
         ELSE IF now - last_update_time < UPDATE_THRESHOLD_MS
                THEN UNCHANGED <<last_update_time, ptrPc, mvX, mvY, mvT>>
                ELSE /\ last_update_time' = now
                     /\ mvX' = x /\ mvY' = y /\ mvT' = now
                     /\ ptrPc' = "mv_lock"
    /\ UNCHANGED <<running, enabled, gamepad, recoil_enabled, recoil_active,
                   recoil_offset_y, is_moving, last_sent_x, last_sent_y,
                   last_x, last_y, last_move_time, stats_pending, stats,
                   mouse_lock, gamepad_lock, listener,
                   devVars, now, extVars, mvSX, mvSY, ckPressed, wdPc, rcPc, ctlPc, obsVars>>

\* on_move called by the listener, under the budget of counted movements
OnMoveEntry(x, y) ==
    /\ counted.total_movements < MaxMoves
    /\ OnMoveArrives(x, y)

\* the positions within one pixel of x that a pointer at rest reports
JitterXs(x) == {x, IF x % 2 = 0 THEN x + 1 ELSE x - 1}

\* on_move called with a position within one pixel of the last observed
\* one: with the default deadzone the event is filtered at line 112
OnMoveJitter == \E x \in JitterXs(last_x) : OnMoveArrives(x, last_y)

\* variant of OnMoveLocked: a filtered event leaves last_move_time as it was
OnMoveLocked_FilteredKeepsTime ==
    /\ ptrPc = "mv_lock"
    /\ mouse_lock = "free"
    /\ LET dx == mvX - last_x
           dy == mvY - last_y
           stick_x == StickAxis(raw_x(dx, cfg_sens), cfg_deadzone)
           stick_y == StickAxis(raw_y(dy, cfg_sens, recoil_active, recoil_enabled,
                                      recoil_offset_y),
                                cfg_deadzone)
       IN
       /\ last_x' = mvX
       /\ last_y' = mvY
       /\ integrated' = <<integrated[1] + dx, integrated[2] + dy>>
       /\ IF dx * dx + dy * dy < deadzone_squared
            THEN /\ ptrPc' = "idle"
                 /\ UNCHANGED <<stats_pending, counted, motion_time, is_moving,
                                last_move_time,
                                mouse_lock, mvSX, mvSY>>
            ELSE /\ stats_pending' = [stats_pending EXCEPT !.total_movements = @ + 1]
                 /\ counted' = [counted EXCEPT !.total_movements = @ + 1]
                 /\ motion_time' = mvT
                 /\ last_move_time' = mvT
                 /\ is_moving' = TRUE
                 /\ IF ~gamepad \/ (stick_x = last_sent_x /\ stick_y = last_sent_y)
                      THEN /\ ptrPc' = "idle"
                           /\ UNCHANGED <<mouse_lock, mvSX, mvSY>>
                      ELSE /\ mvSX' = clamp(stick_x, MIN, MAX)
                           /\ mvSY' = clamp(stick_y, MIN, MAX)
                           /\ mouse_lock' = "ptr"
                           /\ ptrPc' = "mv_write"
    /\ mvX' = 0 /\ mvY' = 0 /\ mvT' = 0
    /\ UNCHANGED <<running, enabled, gamepad, recoil_enabled, recoil_active,
                   recoil_offset_y, last_sent_x, last_sent_y, last_update_time,
                   stats, gamepad_lock, listener,
                   devVars, now, cfgVars, btn_down, cmVars, stats_lock, wdValue,
                   ckPressed, wdPc, rcPc, ctlPc, obsVars>>

\* variant of OnMoveLocked: is_moving is left as it was
OnMoveLocked_NoMoving ==
    /\ ptrPc = "mv_lock"
    /\ mouse_lock = "free"
    /\ LET dx == mvX - last_x
           dy == mvY - last_y
           stick_x == StickAxis(raw_x(dx, cfg_sens), cfg_deadzone)
           stick_y == StickAxis(raw_y(dy, cfg_sens, recoil_active, recoil_enabled,
                                      recoil_offset_y),
                                cfg_deadzone)
       IN
       /\ last_x' = mvX
       /\ last_y' = mvY
       /\ last_move_time' = mvT
       /\ integrated' = <<integrated[1] + dx, integrated[2] + dy>>
       /\ IF dx * dx + dy * dy < deadzone_squared
            THEN /\ ptrPc' = "idle"
                 /\ UNCHANGED <<stats_pending, counted, motion_time,
                                mouse_lock, mvSX, mvSY>>
            ELSE /\ stats_pending' = [stats_pending EXCEPT !.total_movements = @ + 1]
                 /\ counted' = [counted EXCEPT !.total_movements = @ + 1]
                 /\ motion_time' = mvT
                 /\ IF ~gamepad \/ (stick_x = last_sent_x /\ stick_y = last_sent_y)
                      THEN /\ ptrPc' = "idle"
                           /\ UNCHANGED <<mouse_lock, mvSX, mvSY>>
                      ELSE /\ mvSX' = clamp(stick_x, MIN, MAX)
                           /\ mvSY' = clamp(stick_y, MIN, MAX)
                           /\ mouse_lock' = "ptr"
                           /\ ptrPc' = "mv_write"
    /\ mvX' = 0 /\ mvY' = 0 /\ mvT' = 0
    /\ UNCHANGED is_moving
    /\ UNCHANGED <<running, enabled, gamepad, recoil_enabled, recoil_active,
                   recoil_offset_y, last_sent_x, last_sent_y, last_update_time,
                   stats, gamepad_lock, listener,
                   devVars, now, cfgVars, btn_down, cmVars, stats_lock, wdValue,
                   ckPressed, wdPc, rcPc, ctlPc, obsVars>>

\* lines 105-128 up to the device write: the body under the motion lock,
\* including update_gamepad_stick's lines 80-87
OnMoveLocked ==
    /\ ptrPc = "mv_lock"
    /\ mouse_lock = "free"
    /\ LET dx == mvX - last_x
           dy == mvY - last_y
           stick_x == StickAxis(raw_x(dx, cfg_sens), cfg_deadzone)
           stick_y == StickAxis(raw_y(dy, cfg_sens, recoil_active, recoil_enabled,
                                      recoil_offset_y),
                                cfg_deadzone)
       IN
       /\ last_x' = mvX
       /\ last_y' = mvY
       /\ last_move_time' = mvT
       /\ integrated' = <<integrated[1] + dx, integrated[2] + dy>>
       /\ IF dx * dx + dy * dy < deadzone_squared
            THEN /\ ptrPc' = "idle"
                 /\ UNCHANGED <<stats_pending, counted, motion_time, is_moving,
                                mouse_lock, mvSX, mvSY>>
            ELSE /\ stats_pending' = [stats_pending EXCEPT !.total_movements = @ + 1]
                 /\ counted' = [counted EXCEPT !.total_movements = @ + 1]
                 /\ motion_time' = mvT
                 /\ is_moving' = TRUE
                 /\ IF ~gamepad \/ (stick_x = last_sent_x /\ stick_y = last_sent_y)
                      THEN /\ ptrPc' = "idle"
                           /\ UNCHANGED <<mouse_lock, mvSX, mvSY>>
                      ELSE /\ mvSX' = clamp(stick_x, MIN, MAX)
                           /\ mvSY' = clamp(stick_y, MIN, MAX)
                           /\ mouse_lock' = "ptr"
                           /\ ptrPc' = "mv_write"
    /\ mvX' = 0 /\ mvY' = 0 /\ mvT' = 0
    /\ UNCHANGED <<running, enabled, gamepad, recoil_enabled, recoil_active,
                   recoil_offset_y, last_sent_x, last_sent_y, last_update_time,
                   stats, gamepad_lock, listener,
                   devVars, now, cfgVars, btn_down, cmVars, stats_lock, wdValue,
                   ckPressed, wdPc, rcPc, ctlPc, obsVars>>

\* lines 89-90: take the device-write lock, gamepad.right_joystick(...);
\* ok = FALSE: the call raises, the exception leaves on_move
OnMoveWrite(ok) ==
    /\ ptrPc = "mv_write"
    /\ gamepad_lock = "free"
    /\ IF ok
         THEN /\ gamepad_lock' = "ptr"
              /\ dev_axes' = <<mvSX, mvSY>>
              /\ ptrPc' = "mv_flush"
              /\ UNCHANGED <<mouse_lock, mvSX, mvSY>>
         ELSE /\ mouse_lock' = "free"
              /\ ptrPc' = "idle"
              /\ mvSX' = 0 /\ mvSY' = 0
              /\ UNCHANGED <<gamepad_lock, dev_axes>>
    /\ UNCHANGED <<running, enabled, gamepad, recoil_enabled, recoil_active,
                   recoil_offset_y, is_moving, last_sent_x, last_sent_y,
                   last_x, last_y, last_move_time, last_update_time,
                   stats_pending, stats, listener,
                   dev_report, dev_by, now, extVars, mvX, mvY, mvT, ckPressed,
                   wdPc, rcPc, ctlPc, obsVars>>

\* lines 91-94: gamepad.update(), release the device-write lock, record the
\* committed vector, release the motion lock
OnMoveFlush(ok) ==
    /\ ptrPc = "mv_flush"
    /\ gamepad_lock' = "free"
    /\ mouse_lock' = "free"
    /\ ptrPc' = "idle"
    /\ mvSX' = 0 /\ mvSY' = 0
    /\ IF ok
         THEN /\ dev_report' = dev_axes
              /\ dev_by' = "commit"
              /\ last_sent_x' = mvSX
              /\ last_sent_y' = mvSY
         ELSE UNCHANGED <<dev_report, dev_by, last_sent_x, last_sent_y>>
    /\ UNCHANGED <<running, enabled, gamepad, recoil_enabled, recoil_active,
                   recoil_offset_y, is_moving,
                   last_x, last_y, last_move_time, last_update_time,
                   stats_pending, stats, listener,
                   dev_axes, now, extVars, mvX, mvY, mvT, ckPressed,
                   wdPc, rcPc, ctlPc, obsVars>>

----------------------------------------------------------------------------
(* Pointer context: Core.on_click *)

\* line 131: the guard (reads recoil_enabled and enabled without a lock).
\* The event reports that the button went down (pressed) or up.
OnClickEntry(button, pressed) ==
    /\ ptrPc = "idle"
    /\ pressed => counted.total_clicks < MaxClicks
    /\ btn_down' = IF button = "left" THEN pressed ELSE btn_down
    /\ IF button = "left" /\ recoil_enabled /\ enabled
         THEN /\ ptrPc' = "ck_body"
              /\ ckPressed' = pressed
         ELSE UNCHANGED <<ptrPc, ckPressed>>
    /\ UNCHANGED <<coreVars, devVars, now, cfgVars, cmVars, stVars, histVars, mvX, mvY, mvT, mvSX, mvSY,
                   wdPc, rcPc, ctlPc, obsVars>>

\* variant of OnClickBody: releases are counted as well
OnClickBody_CountsRelease ==
    /\ ptrPc = "ck_body"
    /\ stats_pending' =
         IF TRUE
           THEN [stats_pending EXCEPT !.total_clicks = @ + 1,
                                      !.recoil_activations = @ + 1]
           ELSE stats_pending
    /\ counted' =
         IF TRUE
           THEN [counted EXCEPT !.total_clicks = @ + 1,
                                !.recoil_activations = @ + 1]
           ELSE counted
    /\ recoil_active' = ckPressed
    /\ ptrPc' = "idle"
    /\ ckPressed' = FALSE
    /\ UNCHANGED <<running, enabled, gamepad, recoil_enabled,
                   recoil_offset_y, is_moving, last_sent_x, last_sent_y,
                   last_x, last_y, last_move_time, last_update_time,
                   stats, mouse_lock, gamepad_lock, listener,
                   devVars, now, cfgVars, btn_down, cmVars, stats_lock, wdValue,
                   histVars, mvX, mvY, mvT, mvSX, mvSY,
                   wdPc, rcPc, ctlPc, obsVars>>

\* lines 132-136: count the press, set the active flag (no lock is held)
OnClickBody ==
    /\ ptrPc = "ck_body"
    /\ stats_pending' =
         IF ckPressed
           THEN [stats_pending EXCEPT !.total_clicks = @ + 1,
                                      !.recoil_activations = @ + 1]
           ELSE stats_pending
    /\ counted' =
         IF ckPressed
           THEN [counted EXCEPT !.total_clicks = @ + 1,
                                !.recoil_activations = @ + 1]
           ELSE counted
    /\ recoil_active' = ckPressed
    /\ ptrPc' = "idle"
    /\ ckPressed' = FALSE
    /\ UNCHANGED <<running, enabled, gamepad, recoil_enabled,
                   recoil_offset_y, is_moving, last_sent_x, last_sent_y,
                   last_x, last_y, last_move_time, last_update_time,
                   stats, mouse_lock, gamepad_lock, listener,
                   devVars, now, cfgVars, btn_down, cmVars, stats_lock, wdValue,
                   histVars, mvX, mvY, mvT, mvSX, mvSY,
                   wdPc, rcPc, ctlPc, obsVars>>

----------------------------------------------------------------------------
(* Idle watchdog: Core.reset_stick_loop *)

\* Core._update_stats, lines 140-144
FlushedStats ==
    [total_movements    |-> stats.total_movements + stats_pending.total_movements,
     total_clicks       |-> stats.total_clicks + stats_pending.total_clicks,
     recoil_activations |-> stats.recoil_activations + stats_pending.recoil_activations]

ZeroStats == [total_movements |-> 0, total_clicks |-> 0, recoil_activations |-> 0]

\* variant of WdHead: the loop does not look at self.running
WdHead_IgnoresRunning ==
    /\ wdPc = "head"
    /\ wdPc' = "stats"
    /\ UNCHANGED <<coreVars, devVars, now, extVars, ptrVars, rcPc, ctlPc, obsVars>>

\* lines 149-150: while self.running: time.sleep(...)
WdHead ==
    /\ wdPc = "head"
    /\ wdPc' = IF running THEN "stats" ELSE "dead"
    /\ UNCHANGED <<coreVars, devVars, now, extVars, ptrVars, rcPc, ctlPc, obsVars>>

\* variant of WdStats: the totals are overwritten with the pending values
WdStats_Overwrites ==
    /\ wdPc = "stats"
    /\ IF stats_pending # ZeroStats
         THEN /\ stats_lock = "free"
              /\ stats_lock' = "wd"
              /\ stats' = stats_pending
              /\ wdValue' = stats_pending
              /\ wdPc' = "stats_zero"
         ELSE /\ wdPc' = "check"
              /\ UNCHANGED <<stats, stats_lock, wdValue>>
    /\ UNCHANGED <<running, enabled, gamepad, recoil_enabled, recoil_active,
                   recoil_offset_y, is_moving, last_sent_x, last_sent_y,
                   last_x, last_y, last_move_time, last_update_time,
                   stats_pending, mouse_lock, gamepad_lock, listener,
                   devVars, now, cfgVars, btn_down, cmVars, counted, histVars,
                   ptrVars, rcPc, ctlPc, obsVars>>

\* line 152: self._update_stats(), lines 140-143: if a pending value is
\* nonzero take the stats lock and add the pending values to the totals.
\* The loop of lines 142-144 adds and zeroes key by key; the model adds the
\* three values in this step and zeroes them in the next, so that for each
\* key the hot path can run between its addition and its zeroing, as it can
\* in the code (the hot path never takes the stats lock).
WdStats ==
    /\ wdPc = "stats"
    /\ IF stats_pending # ZeroStats
         THEN /\ stats_lock = "free"
              /\ stats_lock' = "wd"
              /\ stats' = FlushedStats
              /\ wdValue' = stats_pending
              /\ wdPc' = "stats_zero"
         ELSE /\ wdPc' = "check"
              /\ UNCHANGED <<stats, stats_lock, wdValue>>
    /\ UNCHANGED <<running, enabled, gamepad, recoil_enabled, recoil_active,
                   recoil_offset_y, is_moving, last_sent_x, last_sent_y,
                   last_x, last_y, last_move_time, last_update_time,
                   stats_pending, mouse_lock, gamepad_lock, listener,
                   devVars, now, cfgVars, btn_down, cmVars, counted, histVars,
                   ptrVars, rcPc, ctlPc, obsVars>>

\* line 144: self.stats_pending[key] = 0 for each key, then the stats lock
\* is released
WdStatsZero ==
    /\ wdPc = "stats_zero"
    /\ stats_pending' = ZeroStats
    /\ wdValue' = ZeroStats
    /\ stats_lock' = "free"
    /\ wdPc' = "check"
    /\ UNCHANGED <<running, enabled, gamepad, recoil_enabled, recoil_active,
                   recoil_offset_y, is_moving, last_sent_x, last_sent_y,
                   last_x, last_y, last_move_time, last_update_time,
                   stats, mouse_lock, gamepad_lock, listener,
                   devVars, now, cfgVars, btn_down, cmVars, counted, histVars,
                   ptrVars, rcPc, ctlPc, obsVars>>

\* line 154: if not self.enabled (read without a lock)
WdCheck ==
    /\ wdPc = "check"
    /\ wdPc' = IF ~enabled THEN "d_lock" ELSE "e_lock"
    /\ UNCHANGED <<coreVars, devVars, now, extVars, ptrVars, rcPc, ctlPc, obsVars>>

\* Both branches share their tail: with the motion lock held, if cond holds
\* write center (when a device is attached), then record center and clear
\* is_moving.  WdLock is the step that takes the motion lock and evaluates
\* cond; without a device the tail needs no further lock and runs at once.
WdLock(pcHere, pcWrite, cond) ==
    /\ wdPc = pcHere
    /\ mouse_lock = "free"
    /\ IF cond
         THEN IF gamepad
                THEN /\ mouse_lock' = "wd"
                     /\ wdPc' = pcWrite
                     /\ UNCHANGED <<last_sent_x, last_sent_y, is_moving>>
                ELSE /\ last_sent_x' = CENTER
                     /\ last_sent_y' = CENTER
                     /\ is_moving' = FALSE
                     /\ wdPc' = "head"
                     /\ UNCHANGED mouse_lock
         ELSE /\ wdPc' = "head"
              /\ UNCHANGED <<mouse_lock, last_sent_x, last_sent_y, is_moving>>
    /\ UNCHANGED <<running, enabled, gamepad, recoil_enabled, recoil_active,
                   recoil_offset_y, last_x, last_y, last_move_time,
                   last_update_time, stats_pending, stats, gamepad_lock, listener,
                   devVars, now, extVars, ptrVars, rcPc, ctlPc, obsVars>>

\* take the device-write lock, gamepad.right_joystick(CENTER, CENTER);
\* ok = FALSE: the call raises; nothing in the loop catches it, the
\* with-blocks release the locks and the thread ends
WdWrite(pcHere, pcFlush, ok) ==
    /\ wdPc = pcHere
    /\ gamepad_lock = "free"
    /\ IF ok
         THEN /\ gamepad_lock' = "wd"
              /\ dev_axes' = <<CENTER, CENTER>>
              /\ wdPc' = pcFlush
              /\ UNCHANGED mouse_lock
         ELSE /\ mouse_lock' = "free"
              /\ wdPc' = "crashed"
              /\ UNCHANGED <<gamepad_lock, dev_axes>>
    /\ UNCHANGED <<running, enabled, gamepad, recoil_enabled, recoil_active,
                   recoil_offset_y, is_moving, last_sent_x, last_sent_y,
                   last_x, last_y, last_move_time, last_update_time,
                   stats_pending, stats, listener,
                   dev_report, dev_by, now, extVars, ptrVars, rcPc, ctlPc, obsVars>>

\* gamepad.update(), release the device-write lock, record center, clear
\* is_moving, release the motion lock
WdFlush(pcHere, ok) ==
    /\ wdPc = pcHere
    /\ gamepad_lock' = "free"
    /\ mouse_lock' = "free"
    /\ IF ok
         THEN /\ dev_report' = dev_axes
              /\ dev_by' = "reset"
              /\ last_sent_x' = CENTER
              /\ last_sent_y' = CENTER
              /\ is_moving' = FALSE
              /\ wdPc' = "head"
         ELSE /\ wdPc' = "crashed"
              /\ UNCHANGED <<dev_report, dev_by, last_sent_x, last_sent_y, is_moving>>
    /\ UNCHANGED <<running, enabled, gamepad, recoil_enabled, recoil_active,
                   recoil_offset_y, last_x, last_y, last_move_time,
                   last_update_time, stats_pending, stats, listener,
                   dev_axes, now, extVars, ptrVars, rcPc, ctlPc, obsVars>>

\* variant of WdDisabledLock: the disabled branch never recenters
WdDisabledLock_NeverCenters ==
    WdLock("d_lock", "d_write", FALSE)

\* lines 155-164: the disabled branch
WdDisabledLock ==
    WdLock("d_lock", "d_write", last_sent_x # CENTER \/ last_sent_y # CENTER)
WdDisabledWrite(ok) == WdWrite("d_write", "d_flush", ok)
WdDisabledFlush(ok) == WdFlush("d_flush", ok)

\* variant of WdEnabledLock: the idle test does not look at is_moving
WdEnabledLock_IgnoresMoving ==
    WdLock("e_lock", "e_write", now - last_move_time > RESET_DELAY_MS)

\* lines 166-176: the enabled branch (idle recentering)
WdEnabledLock ==
    WdLock("e_lock", "e_write",
           now - last_move_time > RESET_DELAY_MS /\ is_moving)
WdEnabledWrite(ok) == WdWrite("e_write", "e_flush", ok)
WdEnabledFlush(ok) == WdFlush("e_flush", ok)

----------------------------------------------------------------------------
(* Recoil simulator: Core.recoil_loop *)

\* line 184: while self.running
RcLoopHead ==
    /\ rcPc = "head"
    /\ rcPc' = IF running THEN "cond" ELSE "dead"
    /\ UNCHANGED <<coreVars, devVars, now, extVars, ptrVars, wdPc, ctlPc, obsVars>>

\* RcLoopHead under the budget of offset-changing ticks: an iteration begins
\* only while the budget is not used up; a loop that is told to stop always
\* leaves.
RcHead ==
    /\ running => rcTicks < MaxRecoilTicks
    /\ RcLoopHead

\* line 185: the branch condition, read without a lock
RcCond ==
    /\ rcPc = "cond"
    /\ rcPc' = IF recoil_active /\ enabled /\ recoil_enabled THEN "act" ELSE "rec"
    /\ UNCHANGED <<coreVars, devVars, now, extVars, ptrVars, wdPc, ctlPc, obsVars>>

\* variant of RcUpdate: the tick also writes the offset to the device
RcUpdate_WritesDevice(pcHere, newOffset) ==
    /\ rcPc = pcHere
    /\ mouse_lock = "free"
    /\ recoil_offset_y' = newOffset
    /\ rcTicks' = IF newOffset # recoil_offset_y THEN rcTicks + 1 ELSE rcTicks
    /\ rcPc' = "head"
    /\ dev_axes' = <<last_sent_x, newOffset>>
    /\ dev_report' = <<last_sent_x, newOffset>>
    /\ dev_by' = "recoil"
    /\ UNCHANGED <<running, enabled, gamepad, recoil_enabled, recoil_active,
                   is_moving, last_sent_x, last_sent_y,
                   last_x, last_y, last_move_time, last_update_time,
                   stats_pending, stats, mouse_lock, gamepad_lock, listener,
                   now, extVars, ptrVars, wdPc, ctlPc,
                   lifecycle, stopReturned, disabledClean>>

\* the offset update of one branch under the motion lock, then the sleep
RcUpdate(pcHere, newOffset) ==
    /\ rcPc = pcHere
    /\ mouse_lock = "free"
    /\ recoil_offset_y' = newOffset
    /\ rcTicks' = IF newOffset # recoil_offset_y THEN rcTicks + 1 ELSE rcTicks
    /\ rcPc' = "head"
    /\ UNCHANGED <<running, enabled, gamepad, recoil_enabled, recoil_active,
                   is_moving, last_sent_x, last_sent_y,
                   last_x, last_y, last_move_time, last_update_time,
                   stats_pending, stats, mouse_lock, gamepad_lock, listener,
                   devVars, now, extVars, ptrVars, wdPc, ctlPc,
                   lifecycle, stopReturned, disabledClean>>

\* lines 186-192: active tick
RcActive == RcUpdate("act", RecoilActiveTick(recoil_offset_y))

\* lines 194-204: recovery tick
RcRecover == RcUpdate("rec", RecoilRecoverTick(recoil_offset_y))

----------------------------------------------------------------------------
(* Controlling context: Core.start, Core.stop, Core.set_enabled *)

LoopsGone == wdPc \in {"dead", "crashed"} /\ rcPc = "dead"

\* variant of Start: a failed position sample is swallowed and the listener
\* and the loops are started all the same
Start_IgnoresSampleFailure(sampleOk, px, py) ==
    /\ ctlPc = "idle"
    /\ LoopsGone
    /\ IF ~gamepad
         THEN /\ lifecycle' = "start_failed"
              /\ UNCHANGED <<last_x, last_y, last_move_time, histVars, listener,
                             wdPc, rcPc, stopReturned>>
         ELSE /\ IF sampleOk
                   THEN /\ last_x' = px /\ last_y' = py /\ last_move_time' = now
                        /\ integrated' = <<px, py>>
                        /\ motion_time' = now
                   ELSE UNCHANGED <<last_x, last_y, last_move_time, histVars>>
              /\ listener' = "on"
              /\ wdPc' = "head"
              /\ rcPc' = "head"
              /\ lifecycle' = IF sampleOk THEN "started" ELSE "start_failed"
              /\ stopReturned' = FALSE
    /\ UNCHANGED <<running, enabled, gamepad, recoil_enabled, recoil_active,
                   recoil_offset_y, is_moving, last_sent_x, last_sent_y,
                   last_update_time, stats_pending, stats,
                   mouse_lock, gamepad_lock,
                   devVars, now, cfgVars, btn_down, cmVars, stVars,
                   ptrVars, ctlPc, disabledClean, rcTicks>>

\* start(), lines 206-225.  sampleOk = FALSE: reading the pointer position
\* raises.  (px, py) is the sampled position.  The model runs one watchdog
\* and one recoil thread, so start() is called when none is left over.
Start(sampleOk, px, py) ==
    /\ ctlPc = "idle"
    /\ LoopsGone
    /\ IF ~gamepad \/ ~sampleOk
         THEN /\ lifecycle' = "start_failed"
              /\ UNCHANGED <<last_x, last_y, last_move_time, histVars, listener,
                             wdPc, rcPc, stopReturned>>
         ELSE /\ last_x' = px
              /\ last_y' = py
              /\ last_move_time' = now
              /\ integrated' = <<px, py>>
              /\ motion_time' = now
              /\ listener' = "on"
              /\ wdPc' = "head"
              /\ rcPc' = "head"
              /\ lifecycle' = "started"
              /\ stopReturned' = FALSE
    /\ UNCHANGED <<running, enabled, gamepad, recoil_enabled, recoil_active,
                   recoil_offset_y, is_moving, last_sent_x, last_sent_y,
                   last_update_time, stats_pending, stats,
                   mouse_lock, gamepad_lock,
                   devVars, now, cfgVars, btn_down, cmVars, stVars,
                   ptrVars, ctlPc, disabledClean, rcTicks>>

\* set_enabled(True), line 240
SetEnabledTrue ==
    /\ ctlPc = "idle"
    /\ enabled' = TRUE
    /\ disabledClean' = FALSE
    /\ stopReturned' = FALSE
    /\ UNCHANGED <<running, gamepad, recoil_enabled, recoil_active,
                   recoil_offset_y, is_moving, last_sent_x, last_sent_y,
                   last_x, last_y, last_move_time, last_update_time,
                   stats_pending, stats, mouse_lock, gamepad_lock, listener,
                   devVars, now, extVars, ptrVars, wdPc, rcPc, ctlPc, lifecycle, rcTicks>>

\* variant of SetEnabledFalseEntry: the flag is toggled
SetEnabledFalseEntry_Toggles ==
    /\ ctlPc = "idle"
    /\ enabled' = ~enabled
    /\ IF gamepad
         THEN /\ ctlPc' = "se_lock"
              /\ UNCHANGED disabledClean
         ELSE /\ ctlPc' = "idle"
              /\ disabledClean' = TRUE
    /\ UNCHANGED <<running, gamepad, recoil_enabled, recoil_active,
                   recoil_offset_y, is_moving, last_sent_x, last_sent_y,
                   last_x, last_y, last_move_time, last_update_time,
                   stats_pending, stats, mouse_lock, gamepad_lock, listener,
                   devVars, now, extVars, ptrVars, wdPc, rcPc,
                   lifecycle, stopReturned, rcTicks>>

\* set_enabled(False), lines 240-241: clear the flag; without a device the
\* call returns here
SetEnabledFalseEntry ==
    /\ ctlPc = "idle"
    /\ enabled' = FALSE
    /\ IF gamepad
         THEN /\ ctlPc' = "se_lock"
              /\ UNCHANGED disabledClean
         ELSE /\ ctlPc' = "idle"
              /\ disabledClean' = TRUE
    /\ UNCHANGED <<running, gamepad, recoil_enabled, recoil_active,
                   recoil_offset_y, is_moving, last_sent_x, last_sent_y,
                   last_x, last_y, last_move_time, last_update_time,
                   stats_pending, stats, mouse_lock, gamepad_lock, listener,
                   devVars, now, extVars, ptrVars, wdPc, rcPc,
                   lifecycle, stopReturned, rcTicks>>

\* line 242: with self.mouse_lock
SetEnabledLock ==
    /\ ctlPc = "se_lock"
    /\ mouse_lock = "free"
    /\ mouse_lock' = "ctl"
    /\ ctlPc' = "se_write"
    /\ UNCHANGED <<running, enabled, gamepad, recoil_enabled, recoil_active,
                   recoil_offset_y, is_moving, last_sent_x, last_sent_y,
                   last_x, last_y, last_move_time, last_update_time,
                   stats_pending, stats, gamepad_lock, listener,
                   devVars, now, extVars, ptrVars, wdPc, rcPc, obsVars>>

\* lines 243-244: with self.gamepad_lock: right_joystick(CENTER, CENTER);
\* ok = FALSE: the call raises and the exception leaves set_enabled
SetEnabledWrite(ok) ==
    /\ ctlPc = "se_write"
    /\ gamepad_lock = "free"
    /\ IF ok
         THEN /\ gamepad_lock' = "ctl"
              /\ dev_axes' = <<CENTER, CENTER>>
              /\ ctlPc' = "se_flush"
              /\ UNCHANGED mouse_lock
         ELSE /\ mouse_lock' = "free"
              /\ ctlPc' = "idle"
              /\ UNCHANGED <<gamepad_lock, dev_axes>>
    /\ UNCHANGED <<running, enabled, gamepad, recoil_enabled, recoil_active,
                   recoil_offset_y, is_moving, last_sent_x, last_sent_y,
                   last_x, last_y, last_move_time, last_update_time,
                   stats_pending, stats, listener,
                   dev_report, dev_by, now, extVars, ptrVars, wdPc, rcPc, obsVars>>

\* variant of SetEnabledFlush: the motion lock is not released
SetEnabledFlush_KeepsMotionLock(ok) ==
    /\ ctlPc = "se_flush"
    /\ gamepad_lock' = "free"
    /\ mouse_lock' = mouse_lock
    /\ ctlPc' = "idle"
    /\ IF ok
         THEN /\ dev_report' = dev_axes
              /\ dev_by' = "reset"
              /\ last_sent_x' = CENTER
              /\ last_sent_y' = CENTER
              /\ recoil_offset_y' = 0
              /\ recoil_active' = FALSE
              /\ is_moving' = FALSE
              /\ disabledClean' = TRUE
         ELSE UNCHANGED <<dev_report, dev_by, last_sent_x, last_sent_y, recoil_offset_y,
                          recoil_active, is_moving, disabledClean>>
    /\ UNCHANGED <<running, enabled, gamepad, recoil_enabled,
                   last_x, last_y, last_move_time, last_update_time,
                   stats_pending, stats, listener,
                   dev_axes, now, extVars, ptrVars, wdPc, rcPc,
                   lifecycle, stopReturned, rcTicks>>

\* lines 245-250: update(), release the device-write lock, the reset under
\* the motion lock, release it, return
SetEnabledFlush(ok) ==
    /\ ctlPc = "se_flush"
    /\ gamepad_lock' = "free"
    /\ mouse_lock' = "free"
    /\ ctlPc' = "idle"
    /\ IF ok
         THEN /\ dev_report' = dev_axes
              /\ dev_by' = "reset"
              /\ last_sent_x' = CENTER
              /\ last_sent_y' = CENTER
              /\ recoil_offset_y' = 0
              /\ recoil_active' = FALSE
              /\ is_moving' = FALSE
              /\ disabledClean' = TRUE
         ELSE UNCHANGED <<dev_report, dev_by, last_sent_x, last_sent_y, recoil_offset_y,
                          recoil_active, is_moving, disabledClean>>
    /\ UNCHANGED <<running, enabled, gamepad, recoil_enabled,
                   last_x, last_y, last_move_time, last_update_time,
                   stats_pending, stats, listener,
                   dev_axes, now, extVars, ptrVars, wdPc, rcPc,
                   lifecycle, stopReturned, rcTicks>>

\* variant of StopEntry: a listener that is already stopped is started again
StopEntry_RestartsListener ==
    /\ ctlPc = "idle"
    /\ running' = FALSE
    /\ enabled' = FALSE
    /\ listener' = IF listener = "on" THEN "stopped" ELSE "on"
    /\ lifecycle' = "stopped"
    /\ IF gamepad
         THEN /\ ctlPc' = "st_write"
              /\ UNCHANGED stopReturned
         ELSE /\ ctlPc' = "idle"
              /\ stopReturned' = TRUE
    /\ UNCHANGED <<gamepad, recoil_enabled, recoil_active,
                   recoil_offset_y, is_moving, last_sent_x, last_sent_y,
                   last_x, last_y, last_move_time, last_update_time,
                   stats_pending, stats, mouse_lock, gamepad_lock,
                   devVars, now, extVars, ptrVars, wdPc, rcPc, disabledClean, rcTicks>>

\* stop(), lines 228-234: clear the flags, stop the listener; without a
\* device the call returns here
StopEntry ==
    /\ ctlPc = "idle"
    /\ running' = FALSE
    /\ enabled' = FALSE
    /\ listener' = IF listener = "on" THEN "stopped" ELSE listener
    /\ lifecycle' = "stopped"
    /\ IF gamepad
         THEN /\ ctlPc' = "st_write"
              /\ UNCHANGED stopReturned
         ELSE /\ ctlPc' = "idle"
              /\ stopReturned' = TRUE
    /\ UNCHANGED <<gamepad, recoil_enabled, recoil_active,
                   recoil_offset_y, is_moving, last_sent_x, last_sent_y,
                   last_x, last_y, last_move_time, last_update_time,
                   stats_pending, stats, mouse_lock, gamepad_lock,
                   devVars, now, extVars, ptrVars, wdPc, rcPc, disabledClean, rcTicks>>

\* variant of StopWrite: the axes are set without taking the device-write lock
StopWrite_NoLock(ok) ==
    /\ ctlPc = "st_write"
    /\ IF ok
         THEN /\ gamepad_lock' = gamepad_lock
              /\ dev_axes' = <<CENTER, CENTER>>
              /\ ctlPc' = "st_flush"
         ELSE /\ ctlPc' = "idle"
              /\ UNCHANGED <<gamepad_lock, dev_axes>>
    /\ UNCHANGED <<running, enabled, gamepad, recoil_enabled, recoil_active,
                   recoil_offset_y, is_moving, last_sent_x, last_sent_y,
                   last_x, last_y, last_move_time, last_update_time,
                   stats_pending, stats, mouse_lock, listener,
                   dev_report, dev_by, now, extVars, ptrVars, wdPc, rcPc, obsVars>>

\* lines 235-236: with self.gamepad_lock: right_joystick(CENTER, CENTER)
StopWrite(ok) ==
    /\ ctlPc = "st_write"
    /\ gamepad_lock = "free"
    /\ IF ok
         THEN /\ gamepad_lock' = "ctl"
              /\ dev_axes' = <<CENTER, CENTER>>
              /\ ctlPc' = "st_flush"
         ELSE /\ ctlPc' = "idle"
              /\ UNCHANGED <<gamepad_lock, dev_axes>>
    /\ UNCHANGED <<running, enabled, gamepad, recoil_enabled, recoil_active,
                   recoil_offset_y, is_moving, last_sent_x, last_sent_y,
                   last_x, last_y, last_move_time, last_update_time,
                   stats_pending, stats, mouse_lock, listener,
                   dev_report, dev_by, now, extVars, ptrVars, wdPc, rcPc, obsVars>>

\* line 237: update(), release the device-write lock, return
StopFlush(ok) ==
    /\ ctlPc = "st_flush"
    /\ gamepad_lock' = "free"
    /\ ctlPc' = "idle"
    /\ IF ok
         THEN /\ dev_report' = dev_axes
              /\ dev_by' = "reset"
              /\ stopReturned' = TRUE
         ELSE UNCHANGED <<dev_report, dev_by, stopReturned>>
    /\ UNCHANGED <<running, enabled, gamepad, recoil_enabled, recoil_active,
                   recoil_offset_y, is_moving, last_sent_x, last_sent_y,
                   last_x, last_y, last_move_time, last_update_time,
                   stats_pending, stats, mouse_lock, listener,
                   dev_axes, now, extVars, ptrVars, wdPc, rcPc,
                   lifecycle, disabledClean, rcTicks>>

----------------------------------------------------------------------------
(* A direct call of Core.update_gamepad_stick, made as the benchmark makes it
   (src/performance_test.py line 134): by the thread that also delivers the
   pointer events, between two events, without the motion lock *)

\* variant of CommitEntry: the vector is not compared with the last
\* committed one
CommitEntry_NoDedupe(stick_x, stick_y) ==
    /\ ptrPc = "idle"
    /\ IF ~gamepad
         THEN UNCHANGED <<ptrPc, cmX, cmY>>
         ELSE /\ cmX' = stick_x
              /\ cmY' = stick_y
              /\ ptrPc' = "cm_write"
    /\ UNCHANGED <<coreVars, devVars, now, cfgVars, btn_down, stVars, histVars,
                   mvX, mvY, mvT, mvSX, mvSY, ckPressed,
                   wdPc, rcPc, ctlPc, obsVars>>

\* lines 80-84: no device, or the vector equals the last committed one
CommitEntry(stick_x, stick_y) ==
    /\ ptrPc = "idle"
    /\ IF ~gamepad \/ (stick_x = last_sent_x /\ stick_y = last_sent_y)
         THEN UNCHANGED <<ptrPc, cmX, cmY>>
         ELSE /\ cmX' = stick_x
              /\ cmY' = stick_y
              /\ ptrPc' = "cm_write"
    /\ UNCHANGED <<coreVars, devVars, now, cfgVars, btn_down, stVars, histVars,
                   mvX, mvY, mvT, mvSX, mvSY, ckPressed,
                   wdPc, rcPc, ctlPc, obsVars>>

\* lines 86-90: clamp both axes, take the device-write lock,
\* gamepad.right_joystick(...); ok = FALSE: the call raises
CommitWrite(ok) ==
    /\ ptrPc = "cm_write"
    /\ gamepad_lock = "free"
    /\ IF ok
         THEN /\ gamepad_lock' = "ptr"
              /\ dev_axes' = <<clamp(cmX, MIN, MAX), clamp(cmY, MIN, MAX)>>
              /\ ptrPc' = "cm_flush"
              /\ UNCHANGED <<cmX, cmY>>
         ELSE /\ ptrPc' = "idle"
              /\ cmX' = 0 /\ cmY' = 0
              /\ UNCHANGED <<gamepad_lock, dev_axes>>
    /\ UNCHANGED <<running, enabled, gamepad, recoil_enabled, recoil_active,
                   recoil_offset_y, is_moving, last_sent_x, last_sent_y,
                   last_x, last_y, last_move_time, last_update_time,
                   stats_pending, stats, mouse_lock, listener,
                   dev_report, dev_by, now, cfgVars, btn_down, stVars, histVars,
                   mvX, mvY, mvT, mvSX, mvSY, ckPressed,
                   wdPc, rcPc, ctlPc, obsVars>>

\* variant of CommitFlush: the committed vector is recorded although
\* gamepad.update() raised
CommitFlush_RecordsOnFailure(ok) ==
    /\ ptrPc = "cm_flush"
    /\ gamepad_lock' = "free"
    /\ ptrPc' = "idle"
    /\ cmX' = 0 /\ cmY' = 0
    /\ dev_report' = IF ok THEN dev_axes ELSE dev_report
    /\ dev_by' = IF ok THEN "commit" ELSE dev_by
    /\ last_sent_x' = clamp(cmX, MIN, MAX)
    /\ last_sent_y' = clamp(cmY, MIN, MAX)
    /\ UNCHANGED <<running, enabled, gamepad, recoil_enabled, recoil_active,
                   recoil_offset_y, is_moving,
                   last_x, last_y, last_move_time, last_update_time,
                   stats_pending, stats, mouse_lock, listener,
                   dev_axes, now, cfgVars, btn_down, stVars, histVars,
                   mvX, mvY, mvT, mvSX, mvSY, ckPressed,
                   wdPc, rcPc, ctlPc, obsVars>>

\* lines 91-94: gamepad.update(), release the device-write lock, record the
\* committed (clamped) vector; ok = FALSE: update() raises before line 93
CommitFlush(ok) ==
    /\ ptrPc = "cm_flush"
    /\ gamepad_lock' = "free"
    /\ ptrPc' = "idle"
    /\ cmX' = 0 /\ cmY' = 0
    /\ IF ok
         THEN /\ dev_report' = dev_axes
              /\ dev_by' = "commit"
              /\ last_sent_x' = clamp(cmX, MIN, MAX)
              /\ last_sent_y' = clamp(cmY, MIN, MAX)
         ELSE UNCHANGED <<dev_report, dev_by, last_sent_x, last_sent_y>>
    /\ UNCHANGED <<running, enabled, gamepad, recoil_enabled, recoil_active,
                   recoil_offset_y, is_moving,
                   last_x, last_y, last_move_time, last_update_time,
                   stats_pending, stats, mouse_lock, listener,
                   dev_axes, now, cfgVars, btn_down, stVars, histVars,
                   mvX, mvY, mvT, mvSX, mvSY, ckPressed,
                   wdPc, rcPc, ctlPc, obsVars>>

----------------------------------------------------------------------------
(* Controlling context: the control panel's handlers (src/gui.py) *)

\* on_sensitivity_change: self.core.config.sens = value
OnSensitivityChange(value) ==
    /\ ctlPc = "idle"
    /\ cfg_sens' = value
    /\ UNCHANGED <<coreVars, devVars, now, cfg_deadzone, cfg_recoil_strength, btn_down, cmVars, stVars, histVars,
                   ptrVars, wdPc, rcPc, ctlPc, obsVars>>

\* on_deadzone_change: self.core.config.deadzone = value; the core's
\* deadzone_squared is not recomputed
OnDeadzoneChange(value) ==
    /\ ctlPc = "idle"
    /\ cfg_deadzone' = value
    /\ UNCHANGED <<coreVars, devVars, now, cfg_sens, cfg_recoil_strength, btn_down, cmVars, stVars, histVars,
                   ptrVars, wdPc, rcPc, ctlPc, obsVars>>

\* on_recoil_toggle: self.core.recoil_enabled = checked
OnRecoilToggle(checked) ==
    /\ ctlPc = "idle"
    /\ recoil_enabled' = checked
    /\ UNCHANGED <<running, enabled, gamepad, recoil_active,
                   recoil_offset_y, is_moving, last_sent_x, last_sent_y,
                   last_x, last_y, last_move_time, last_update_time,
                   stats_pending, stats, mouse_lock, gamepad_lock, listener,
                   devVars, now, extVars, ptrVars, wdPc, rcPc, ctlPc, obsVars>>

\* on_recoil_strength_change: self.core.config.recoil_strength = value; the
\* core's own recoil_strength, copied from the config at construction, stays
OnRecoilStrengthChange(value) ==
    /\ ctlPc = "idle"
    /\ cfg_recoil_strength' = value
    /\ UNCHANGED <<coreVars, devVars, now, cfg_sens, cfg_deadzone, btn_down, cmVars,
                   stVars, histVars, ptrVars, wdPc, rcPc, ctlPc, obsVars>>

----------------------------------------------------------------------------
(* Specification *)

\* the steps that continue an operation already begun, one group per context
PtrProgress ==
    \/ OnMoveLocked
    \/ \E ok \in BOOLEAN : OnMoveWrite(ok)
    \/ \E ok \in BOOLEAN : OnMoveFlush(ok)
    \/ OnClickBody

WdStep ==
    \/ WdHead
    \/ WdStats
    \/ WdStatsZero
    \/ WdCheck
    \/ WdDisabledLock
    \/ \E ok \in BOOLEAN : WdDisabledWrite(ok)
    \/ \E ok \in BOOLEAN : WdDisabledFlush(ok)
    \/ WdEnabledLock
    \/ \E ok \in BOOLEAN : WdEnabledWrite(ok)
    \/ \E ok \in BOOLEAN : WdEnabledFlush(ok)

RcStep ==
    \/ RcHead
    \/ RcCond
    \/ RcActive
    \/ RcRecover

CtlProgress ==
    \/ SetEnabledLock
    \/ \E ok \in BOOLEAN : SetEnabledWrite(ok)
    \/ \E ok \in BOOLEAN : SetEnabledFlush(ok)
    \/ \E ok \in BOOLEAN : StopWrite(ok)
    \/ \E ok \in BOOLEAN : StopFlush(ok)

Next ==
    \/ Tick
    \/ \E x \in XCoords, y \in YCoords : OnMoveEntry(x, y)
    \/ \E b \in Buttons, pressed \in BOOLEAN : OnClickEntry(b, pressed)
    \/ PtrProgress
    \/ WdStep
    \/ RcStep
    \/ \E sampleOk \in BOOLEAN, px \in XCoords, py \in YCoords : Start(sampleOk, px, py)
    \/ SetEnabledTrue
    \/ SetEnabledFalseEntry
    \/ StopEntry
    \/ CtlProgress

Spec == Init /\ [][Next]_vars

\* The threads are scheduled fairly and a lock that is released again and
\* again is eventually granted to each context waiting for it.
FairSpec ==
    /\ Spec
    /\ SF_vars(WdStep)
    /\ SF_vars(RcStep)
    /\ SF_vars(PtrProgress)
    /\ SF_vars(CtlProgress)

\* The same engine in an environment that never presses the trigger: every
\* step of Next except the button events and the active recoil tick, which
\* needs recoil_active.
PtrMoveProgress ==
    \/ OnMoveLocked
    \/ \E ok \in BOOLEAN : OnMoveWrite(ok)
    \/ \E ok \in BOOLEAN : OnMoveFlush(ok)

RcIdleStep ==
    \/ RcHead
    \/ RcCond
    \/ RcRecover

NextNoTrigger ==
    \/ Tick
    \/ \E x \in XCoords, y \in YCoords : OnMoveEntry(x, y)
    \/ PtrMoveProgress
    \/ WdStep
    \/ RcIdleStep
    \/ \E sampleOk \in BOOLEAN, px \in XCoords, py \in YCoords : Start(sampleOk, px, py)
    \/ SetEnabledTrue
    \/ SetEnabledFalseEntry
    \/ StopEntry
    \/ CtlProgress

SpecNoTrigger == Init /\ [][NextNoTrigger]_vars

\* The trigger-free environment in which, in addition, the operations follow
\* each other within the reset delay (the clock reading does not advance):
\* no motion is ever older than reset_delay, so the idle branch of the
\* watchdog never reaches its device write and those two steps are left out.
\* Liveness is checked on it, under the fairness of FairSpec.
WdQuietStep ==
    \/ WdHead
    \/ WdStats
    \/ WdStatsZero
    \/ WdCheck
    \/ WdDisabledLock
    \/ \E ok \in BOOLEAN : WdDisabledWrite(ok)
    \/ \E ok \in BOOLEAN : WdDisabledFlush(ok)
    \/ WdEnabledLock

NextQuiet ==
    \/ \E x \in XCoords, y \in YCoords : OnMoveEntry(x, y)
    \/ PtrMoveProgress
    \/ WdQuietStep
    \/ RcIdleStep
    \/ \E sampleOk \in BOOLEAN, px \in XCoords, py \in YCoords : Start(sampleOk, px, py)
    \/ SetEnabledTrue
    \/ SetEnabledFalseEntry
    \/ StopEntry
    \/ CtlProgress

FairSpecQuiet ==
    /\ Init
    /\ [][NextQuiet]_vars
    /\ SF_vars(WdQuietStep)
    /\ SF_vars(RcIdleStep)
    /\ SF_vars(PtrMoveProgress)
    /\ SF_vars(CtlProgress)

----------------------------------------------------------------------------
(* The translation pipeline in a running, enabled engine *)

\* pointer coordinates, sensitivities and deadzones of this environment
MoveXs == {0 - 3, 0, 3, 10}
MoveYs == {0, 1}
SensValues == {<<SENS, 1>>, <<1, 4>>, <<0, 1>>}
DeadzoneValues == {0, DEADZONE, 5}
\* pointer x coordinates of the environment of the direct commits
CommitMoveXs == {0, 10}
\* vectors of a direct update_gamepad_stick call, some outside the device range
CommitXs == {CENTER, MAX, MAX + 1}
CommitYs == {CENTER}

\* the engine after Core(Config()), a successful start() that sampled the
\* pointer at (0, 0), and set_enabled(True), with the trigger held or not
\* and the recoil offset at the given value
\* An engine after start(), set_enabled and pointer, button and recoil
\* activity: device attached or not (gp; without a device start() has failed,
\* no loop runs, and nothing was ever written or committed), enabled (en),
\* the trigger, the recoil offset, is_moving and the last committed x.
EngineState(gp, en, active, offset, moving, sent_x) ==
    /\ running = TRUE
    /\ enabled = en
    /\ gamepad = gp
    /\ recoil_enabled = TRUE
    /\ recoil_active = active
    /\ recoil_offset_y = offset
    /\ is_moving = moving
    /\ last_sent_x = sent_x
    /\ last_sent_y = CENTER
    /\ last_x = 0
    /\ last_y = 0
    /\ last_move_time = StartTime
    /\ integrated = <<0, 0>>
    /\ motion_time = StartTime
    /\ last_update_time = 0
    /\ stats_pending = ZeroStats
    /\ stats = ZeroStats
    /\ mouse_lock = "free"
    /\ gamepad_lock = "free"
    /\ listener = IF gp THEN "on" ELSE "none"
    /\ cfg_sens = <<SENS, 1>>
    /\ cfg_deadzone = DEADZONE
    /\ cfg_recoil_strength = RECOIL_STRENGTH
    /\ stats_lock = "free"
    /\ wdValue = [total_movements |-> 0, total_clicks |-> 0, recoil_activations |-> 0]
    /\ counted = [total_movements |-> 0, total_clicks |-> 0, recoil_activations |-> 0]
    /\ dev_axes = <<sent_x, CENTER>>
    /\ dev_report = <<sent_x, CENTER>>
    /\ dev_by = IF sent_x = CENTER THEN "none" ELSE "commit"
    /\ now = StartTime
    /\ btn_down = active
    /\ ptrPc = "idle"
    /\ mvX = 0 /\ mvY = 0 /\ mvT = 0 /\ mvSX = 0 /\ mvSY = 0
    /\ ckPressed = FALSE
    /\ wdPc = IF gp THEN "head" ELSE "dead"
    /\ rcPc = IF gp THEN "head" ELSE "dead"
    /\ ctlPc = "idle"
    /\ cmX = 0 /\ cmY = 0
    /\ lifecycle = IF gp THEN "started" ELSE "start_failed"
    /\ stopReturned = FALSE
    /\ disabledClean = FALSE
    /\ rcTicks = 0

\* the started, enabled engine with a device, at rest: nothing committed yet
EngineRunning(active, offset) ==
    EngineState(TRUE, TRUE, active, offset, FALSE, CENTER)

\* trigger up, no recoil offset
MoveInit == EngineRunning(FALSE, 0)

CommitStep ==
    \/ \E sx \in CommitXs, sy \in CommitYs : CommitEntry(sx, sy)
    \/ \E ok \in BOOLEAN : CommitWrite(ok)
    \/ \E ok \in BOOLEAN : CommitFlush(ok)

\* recoil offsets the pipeline meets: none, and the offset after one active
\* tick
MoveOffsets == {0, RecoilActiveTick(0)}

\* the running engine with the trigger held or released and the offset at
\* one of MoveOffsets
PipelineInit ==
    \E active \in BOOLEAN, offset \in MoveOffsets : EngineRunning(active, offset)

\* The pointer source and the control panel's sliders; the trigger and the
\* loops stay as the initial state has them.
NextMove ==
    \/ Tick
    \/ \E x \in MoveXs, y \in MoveYs : OnMoveEntry(x, y)
    \/ PtrMoveProgress
    \/ \E v \in SensValues : OnSensitivityChange(v)
    \/ \E v \in DeadzoneValues : OnDeadzoneChange(v)

MoveSpec == PipelineInit /\ [][NextMove]_vars

\* Every context that writes to the device - the pointer source, the
\* watchdog, set_enabled, stop and direct commits - with the default
\* configuration.
NextCommit ==
    \/ Tick
    \/ \E x \in CommitMoveXs : OnMoveEntry(x, 0)
    \/ PtrMoveProgress
    \/ WdStep
    \/ CommitStep
    \/ SetEnabledTrue
    \/ SetEnabledFalseEntry
    \/ StopEntry
    \/ CtlProgress

CommitSpec == MoveInit /\ [][NextCommit]_vars

\* The idle watchdog of an enabled engine against the pointer source:
\* events that move the pointer and events of a pointer at rest.
WdEnabledStep ==
    \/ WdHead
    \/ WdStats
    \/ WdStatsZero
    \/ WdCheck
    \/ WdEnabledLock
    \/ \E ok \in BOOLEAN : WdEnabledWrite(ok)
    \/ \E ok \in BOOLEAN : WdEnabledFlush(ok)

NextIdle ==
    \/ Tick
    \/ \E x \in CommitMoveXs : OnMoveEntry(x, 0)
    \/ OnMoveJitter
    \/ PtrMoveProgress
    \/ WdEnabledStep

IdleSpec == MoveInit /\ [][NextIdle]_vars

----------------------------------------------------------------------------
(* The recoil arithmetic: the recoil loop alone, in a running and enabled
   engine, from every offset between -max_offset and 0, trigger held or
   released *)

RecoilOffsets == (0 - MAX_RECOIL_OFFSET)..0

RecoilInit ==
    \E active \in BOOLEAN, offset \in RecoilOffsets : EngineRunning(active, offset)

NextRecoil ==
    \/ RcLoopHead
    \/ RcCond
    \/ RcActive
    \/ RcRecover

RecoilSpec == RecoilInit /\ [][NextRecoil]_vars

\* the recoil thread is a running thread: it keeps taking steps
FairRecoilSpec == RecoilSpec /\ WF_vars(NextRecoil)

----------------------------------------------------------------------------
(* The trigger: button events against the control panel's recoil checkbox,
   set_enabled and stop *)

NextTrigger ==
    \/ \E b \in Buttons, pressed \in BOOLEAN : OnClickEntry(b, pressed)
    \/ OnClickBody
    \/ \E checked \in BOOLEAN : OnRecoilToggle(checked)
    \/ SetEnabledTrue
    \/ SetEnabledFalseEntry
    \/ StopEntry
    \/ CtlProgress

TriggerSpec == Init /\ [][NextTrigger]_vars

----------------------------------------------------------------------------
(* The recoil loop with the trigger held or released, against the control
   panel's recoil-strength slider *)

\* values of the slider (100..1500): the default and the maximum
RecoilStrengthValues == {RECOIL_STRENGTH, 1500}

RecoilLiveInit == \E active \in BOOLEAN : EngineRunning(active, 0)

NextRecoilLive ==
    \/ RcLoopHead
    \/ RcCond
    \/ RcActive
    \/ RcRecover
    \/ \E v \in RecoilStrengthValues : OnRecoilStrengthChange(v)

RecoilLiveSpec == RecoilLiveInit /\ [][NextRecoilLive]_vars

----------------------------------------------------------------------------
(* set_enabled(False) and stop() called one after the other by the
   controlling context, with no other context running in between, on every
   engine state of EngineState *)

SentXs == {CENTER, MAX}

CtlSeqInit ==
    \E gp, en, active, moving \in BOOLEAN, offset \in MoveOffsets, sent_x \in SentXs :
        /\ ~gp => (offset = 0 /\ ~moving /\ sent_x = CENTER)
        /\ EngineState(gp, en, active, offset, moving, sent_x)

NextCtlSeq ==
    \/ SetEnabledFalseEntry
    \/ StopEntry
    \/ CtlProgress

CtlSeqSpec == CtlSeqInit /\ [][NextCtlSeq]_vars

----------------------------------------------------------------------------
(* The statistics: the hot path's pending bucket, the watchdog's flush and
   the control panel's reset *)

\* reset_stats (src/gui.py): self.core.stats is replaced by a dictionary of
\* zeros; the stats lock is not taken and stats_pending is left alone
ResetStats ==
    /\ ctlPc = "idle"
    /\ stats' = ZeroStats
    /\ UNCHANGED <<running, enabled, gamepad, recoil_enabled, recoil_active,
                   recoil_offset_y, is_moving, last_sent_x, last_sent_y,
                   last_x, last_y, last_move_time, last_update_time,
                   stats_pending, mouse_lock, gamepad_lock, listener,
                   devVars, now, extVars, ptrVars, wdPc, rcPc, ctlPc, obsVars>>

\* The running engine with pointer events, button events, the watchdog,
\* set_enabled and the reset button; the operations follow each other
\* within the reset delay, as in NextQuiet.
NextStats ==
    \/ \E x \in CommitMoveXs : OnMoveEntry(x, 0)
    \/ \E b \in Buttons, pressed \in BOOLEAN : OnClickEntry(b, pressed)
    \/ PtrProgress
    \/ WdQuietStep
    \/ SetEnabledTrue
    \/ SetEnabledFalseEntry
    \/ SetEnabledLock
    \/ \E ok \in BOOLEAN : SetEnabledWrite(ok)
    \/ \E ok \in BOOLEAN : SetEnabledFlush(ok)
    \/ ResetStats

StatsSpec == MoveInit /\ [][NextStats]_vars

----------------------------------------------------------------------------
(* Properties *)

Center == <<CENTER, CENTER>>
WdAlive == wdPc \notin {"dead", "crashed"}
RcAlive == rcPc # "dead"

\* C1: a pointer event that finds the engine disabled, or without a device,
\* at the moment it takes the motion lock is a no-op: it writes nothing to
\* the device and changes no pointer, stick or stats state.
C1_NoOpUnderLockWhenDisabled ==
    [][(OnMoveLocked /\ (~enabled \/ ~gamepad))
         => /\ ptrPc' = "idle"
            /\ UNCHANGED <<last_x, last_y, last_move_time, is_moving,
                           last_sent_x, last_sent_y, stats_pending, stats,
                           dev_axes, dev_report>>]_vars

\* C2: once stop() has returned and every pointer event and loop iteration
\* that was in flight has finished, the vector last written to the device is
\* center.
C2_CenterAfterStop ==
    (stopReturned /\ ptrPc = "idle" /\ ~WdAlive /\ ~RcAlive /\ ctlPc = "idle")
        => dev_report = Center

\* C3: when set_enabled(False) returns, the last committed vector is center,
\* the recoil offset is 0, the recoil active flag and is_moving are false,
\* from whatever engine state it was called in, with or without a device.
C3_DisableResetsOnReturn ==
    [][((SetEnabledFalseEntry /\ ctlPc' = "idle") \/ SetEnabledFlush(TRUE))
         => /\ last_sent_x' = CENTER
            /\ last_sent_y' = CENTER
            /\ recoil_offset_y' = 0
            /\ ~recoil_active'
            /\ ~is_moving']_vars

\* C4: between the return of set_enabled(False) and the next
\* set_enabled(True) the recoil offset stays 0 and the recoil active flag
\* stays false (stated here for an engine whose device is attached, where
\* set_enabled(False) has performed its reset).
C4_NoResidualRecoil ==
    (disabledClean /\ gamepad) => (recoil_offset_y = 0 /\ ~recoil_active)

\* C5: while the last start() has succeeded and stop() has not been called
\* since, neither background loop has left its while-loop.
C5_LoopsAliveWhileStarted ==
    lifecycle = "started" => (wdPc # "dead" /\ rcPc # "dead")

\* C6: start() fails when no device is attached or the pointer position
\* cannot be sampled, and a failed start() starts no listener and no loop
\* and changes no engine field.
C6_FailedStartChangesNothing ==
    [][\A sampleOk \in BOOLEAN, px \in XCoords, py \in YCoords :
         (Start(sampleOk, px, py) /\ (~gamepad \/ ~sampleOk))
            => /\ lifecycle' = "start_failed"
               /\ UNCHANGED <<coreVars, devVars, wdPc, rcPc>>]_vars

\* C6 witness: a start() has failed although the device is attached (the
\* sample failed), and nothing runs
C6_Witness ==
    /\ lifecycle = "start_failed"
    /\ gamepad
    /\ listener = "none"
    /\ ~WdAlive /\ ~RcAlive

\* C7: a failure inside one tick of a background loop does not end the loop.
C7_LoopSurvivesTickFailure ==
    wdPc # "crashed"

\* C8: after stop() has been called both background loops terminate, under
\* fair scheduling.
C8_LoopsTerminateAfterStop ==
    (~running) ~> (~WdAlive /\ ~RcAlive)

\* C8 witness: stop() has returned on an engine that had been started (its
\* listener was running) and both loops are gone
C8_Witness ==
    /\ stopReturned
    /\ listener = "stopped"
    /\ wdPc = "dead" /\ rcPc = "dead"

\* C9: idle recentering.  A watchdog tick of the enabled branch that finds
\* is_moving set and the last motion older than reset_delay goes on to write
\* center; when that write completes the device holds center, center is the
\* last committed vector and is_moving is cleared; a tick that finds
\* is_moving clear writes nothing and changes nothing; and only an accepted,
\* non-deadzoned pointer event sets is_moving again.
C9_IdleRecenterOnce ==
    [][/\ (WdEnabledLock /\ gamepad /\ is_moving
             /\ now - last_move_time > RESET_DELAY_MS)
          => (wdPc' = "e_write" /\ mouse_lock' = "wd")
       /\ WdEnabledWrite(TRUE) => dev_axes' = Center
       /\ WdEnabledFlush(TRUE)
          => (dev_report' = Center /\ last_sent_x' = CENTER
                /\ last_sent_y' = CENTER /\ ~is_moving')
       /\ (WdEnabledLock /\ ~is_moving)
          => (wdPc' = "head"
                /\ UNCHANGED <<dev_axes, dev_report, last_sent_x, last_sent_y,
                               is_moving, mouse_lock>>)
       /\ (~is_moving /\ is_moving') => OnMoveLocked]_vars

\* C9 witness: the watchdog is completing an idle recentering of a deflected
\* stick while the engine is enabled
C9_Witness ==
    /\ wdPc = "e_flush"
    /\ enabled
    /\ is_moving
    /\ last_sent_x # CENTER
    /\ dev_axes = Center

\* C10: while the engine is running (watchdog alive) and disabled, a
\* non-centered last committed vector does not persist: the watchdog writes
\* center, records it and clears is_moving - unless mapping is enabled again,
\* stop() is called, or the watchdog's device write raised (see C7).
C10_DisabledStickRecenters ==
    (running /\ ~enabled /\ WdAlive
        /\ (last_sent_x # CENTER \/ last_sent_y # CENTER))
    ~> \/ (dev_report = Center /\ last_sent_x = CENTER
             /\ last_sent_y = CENTER /\ ~is_moving)
       \/ enabled
       \/ ~running
       \/ wdPc = "crashed"

\* C10 witness: mapping is off, the engine is running, and the watchdog is
\* completing the recentering of a vector committed by a pointer event that
\* was in flight when set_enabled(False) ran
C10_Witness ==
    /\ wdPc = "d_flush"
    /\ running /\ ~enabled
    /\ disabledClean
    /\ last_sent_x # CENTER

----------------------------------------------------------------------------
(* Properties of the translation pipeline *)

\* the delta of the pointer event that is about to run under the motion lock
MoveDx == mvX - last_x
MoveDy == mvY - last_y
\* the event passes the squared-distance check of line 112
MoveAccepted == MoveDx * MoveDx + MoveDy * MoveDy >= deadzone_squared
\* the vector an accepted event hands to update_gamepad_stick, read off the
\* step: the vector it goes on to write, or - when the call returns at the
\* dedupe check - the last committed vector it was found equal to
MoveEmitted ==
    IF ptrPc' = "mv_write"
      THEN <<mvSX', mvSY'>>
      ELSE <<last_sent_x, last_sent_y>>

\* C11: deadzone hard cutoff.  A pointer event that passed the enabled check
\* and the throttle and whose delta satisfies dx*dx + dy*dy < deadzone*deadzone
\* for the deadzone the config holds writes nothing to the stick and leaves
\* is_moving, the last committed vector and the movement counter unchanged.
C11_DeadzoneHardCutoff ==
    [][(OnMoveLocked
          /\ MoveDx * MoveDx + MoveDy * MoveDy < cfg_deadzone * cfg_deadzone)
         => /\ ptrPc' = "idle"
            /\ UNCHANGED <<is_moving, last_sent_x, last_sent_y, stats_pending,
                           dev_axes, dev_report>>]_vars

\* C12 as stated: for every accepted pointer delta the emitted stick_x is 0
\* if and only if |dx * sensitivity| <= deadzone, for every sensitivity and
\* deadzone the config can hold.
C12_CenterIffWithinDeadzone ==
    [][(OnMoveLocked /\ MoveAccepted /\ gamepad)
         => ((MoveEmitted[1] = 0)
               <=> (Abs(MoveDx * cfg_sens[1]) <= cfg_deadzone * cfg_sens[2]))]_vars

\* C12 amended: for every accepted pointer delta the emitted stick_x is 0 if
\* and only if |dx * sensitivity| <= deadzone or 0 <= dx * sensitivity < 1
\* (a scaled value whose floor is 0).
C12_CenterIffWithinDeadzoneOrFloorZero ==
    [][(OnMoveLocked /\ MoveAccepted /\ gamepad)
         => ((MoveEmitted[1] = 0)
               <=> \/ Abs(MoveDx * cfg_sens[1]) <= cfg_deadzone * cfg_sens[2]
                   \/ (0 <= MoveDx * cfg_sens[1]
                         /\ MoveDx * cfg_sens[1] < cfg_sens[2]))]_vars

\* C12 witness: a fractional sensitivity with deadzone 0 has scaled an
\* accepted delta to a value between 0 and 1 and the event is writing it
\* with stick_x = 0
C12_Witness ==
    /\ ptrPc = "mv_write"
    /\ cfg_deadzone = 0
    /\ cfg_sens[2] > 1
    /\ last_x > 0 /\ last_x * cfg_sens[1] < cfg_sens[2]
    /\ mvSX = 0

\* out is f(v) for the rational v = n / d: 0 if |v| <= deadzone, else
\* floor(v) limited to [MIN, MAX]
IsF(n, d, deadzone, out) ==
    IF Abs(n) <= deadzone * d
      THEN out = 0
      ELSE \/ out = MAX /\ n >= MAX * d
           \/ out = MIN /\ n < (MIN + 1) * d
           \/ MIN < out /\ out < MAX /\ out * d <= n /\ n < (out + 1) * d

\* C13: for every accepted pointer delta the vector handed to the output
\* gate is (f(dx*sens), f(-dy*sens + r)), r being the recoil offset if recoil
\* is active and enabled and 0 otherwise, f(v) = 0 if |v| <= deadzone else
\* floor(v) clamped to [-32768, 32767]; with sensitivity 8000 and deadzone 3
\* a move from (0,0) to (10,0) hands over - and then commits - (32767, 0).
C13_EmittedVector ==
    [][(OnMoveLocked /\ MoveAccepted /\ gamepad)
         => LET r == IF recoil_active /\ recoil_enabled THEN recoil_offset_y ELSE 0
                d == cfg_sens[2]
            IN  /\ IsF(MoveDx * cfg_sens[1], d, cfg_deadzone, MoveEmitted[1])
                /\ IsF((0 - MoveDy) * cfg_sens[1] + r * d, d, cfg_deadzone,
                       MoveEmitted[2])
                /\ (cfg_sens = <<8000, 1>> /\ cfg_deadzone = 3 /\ r = 0
                      /\ last_x = 0 /\ last_y = 0 /\ mvX = 10 /\ mvY = 0
                      /\ <<last_sent_x, last_sent_y>> = <<0, 0>>)
                   => (ptrPc' = "mv_write" /\ mvSX' = 32767 /\ mvSY' = 0)]_vars

\* C13 witness: with the trigger held and the offset pulled to -360 a move
\* from (0,0) to (10,0) has been committed as (32767, -360)
C13_Witness ==
    /\ ptrPc = "idle"
    /\ recoil_active /\ recoil_enabled
    /\ recoil_offset_y = 0 - 360
    /\ last_x = 10 /\ last_y = 0
    /\ dev_report = <<32767, 0 - 360>>
    /\ <<last_sent_x, last_sent_y>> = dev_report

InDeviceRange(v) ==
    /\ v[1] \in MIN..MAX
    /\ v[2] \in MIN..MAX

\* C14: every vector written to the device, by any context and after any
\* sequence of operations, has both axes as integers within [-32768, 32767].
C14_WritesInDeviceRange ==
    InDeviceRange(dev_axes) /\ InDeviceRange(dev_report)

\* C14 witness: a vector whose scaled x lies outside the device range has
\* been written, limited to 32767
C14_Witness ==
    /\ last_x = 10
    /\ dev_report = <<MAX, CENTER>>
    /\ gamepad_lock = "free"

\* a call of update_gamepad_stick, from on_move or direct, completes its
\* device write
CommitWrote ==
    \/ ptrPc = "mv_flush" /\ OnMoveFlush(TRUE)
    \/ ptrPc = "cm_flush" /\ CommitFlush(TRUE)

\* a call of update_gamepad_stick with the last committed vector changes
\* nothing
CommitOfLastIsNoOp ==
    \A sx \in CommitXs, sy \in CommitYs :
        (CommitEntry(sx, sy) /\ sx = last_sent_x /\ sy = last_sent_y)
           => UNCHANGED vars

\* C15 as stated: commit is a no-op when its vector equals the last
\* committed vector, so a device write issued through commit that follows
\* another device write issued through commit never carries the same vector
\* again - for all integer inputs, including inputs outside the device range.
C15_NoRepeatedCommit ==
    [][/\ CommitOfLastIsNoOp
       /\ (CommitWrote /\ dev_by = "commit") => dev_report' # dev_report]_vars

\* C15 amended: the same, for inputs within the device range; an input
\* outside the range is compared before it is clamped and so is written
\* again when it clamps to the last committed vector.
C15_NoRepeatedCommitInRange ==
    [][/\ CommitOfLastIsNoOp
       /\ (CommitWrote /\ dev_by = "commit"
             /\ (ptrPc = "cm_flush" => InDeviceRange(<<cmX, cmY>>)))
          => dev_report' # dev_report]_vars

\* C15 witness: a direct commit of an in-range vector is completing its
\* write right after (32767, 0) was committed
C15_Witness ==
    /\ ptrPc = "cm_flush"
    /\ InDeviceRange(<<cmX, cmY>>)
    /\ dev_by = "commit"
    /\ dev_report = <<MAX, CENTER>>
    /\ dev_axes # dev_report

\* a step of update_gamepad_stick (called from on_move or directly) that
\* ends at or after its device write
CommitWriteStep ==
    /\ ptrPc \in {"mv_write", "mv_flush", "cm_write", "cm_flush"}
    /\ ptrPc' # ptrPc

\* C16: the last-committed-vector fields change in commit only after the
\* device write succeeded: a step of commit that changes last_sent_x or
\* last_sent_y has flushed exactly that vector to the device; if the write
\* fails the fields keep their previous values.
C16_LastSentOnlyAfterWrite ==
    [][(CommitWriteStep
          /\ <<last_sent_x, last_sent_y>>' # <<last_sent_x, last_sent_y>>)
         => /\ dev_report' = <<last_sent_x', last_sent_y'>>
            /\ dev_report' = dev_axes
            /\ dev_by' = "commit"]_vars

\* C16 witness: gamepad.update() has raised after right_joystick(32767, 0):
\* the axes were set but never flushed, and the last committed vector is
\* still the one the device holds
C16_Witness ==
    /\ ptrPc = "idle"
    /\ gamepad_lock = "free"
    /\ dev_axes = <<MAX, CENTER>>
    /\ dev_report # dev_axes
    /\ <<last_sent_x, last_sent_y>> = dev_report

----------------------------------------------------------------------------
(* Properties of the recoil arithmetic *)

\* q is the rational n / d (d > 0) truncated toward zero
IsTruncOf(n, d, q) ==
    /\ Abs(q) * d <= Abs(n)
    /\ Abs(n) < (Abs(q) + 1) * d
    /\ n >= 0 => q >= 0
    /\ n <= 0 => q <= 0

\* C17: one active recoil tick replaces the offset by
\* offset + (target - offset) * 0.6, target = max(offset - strength,
\* -max_offset), truncated toward zero; with strength 600, max_offset 6000
\* and offset 0 the offset after the tick is exactly -360.
C17_ActiveTick ==
    [][RcActive
         => LET target == IF recoil_offset_y - 600 >= 0 - 6000
                            THEN recoil_offset_y - 600
                            ELSE 0 - 6000
            IN  /\ IsTruncOf(10 * recoil_offset_y + 6 * (target - recoil_offset_y),
                             10, recoil_offset_y')
                /\ recoil_offset_y = 0 => recoil_offset_y' = 0 - 360]_vars

\* C17 witness: the trigger is held and one tick has taken the offset from 0
\* to -360
C17_Witness ==
    /\ recoil_active /\ enabled /\ recoil_enabled
    /\ rcPc = "head"
    /\ rcTicks = 1
    /\ recoil_offset_y = 0 - 360

\* C18: recoil monotonicity.  Each active tick leaves the offset less than
\* or equal to its value before the tick, and an active tick that finds the
\* offset at -max_offset leaves it there.
C18_ActiveMonotone ==
    [][RcActive
         => /\ recoil_offset_y' <= recoil_offset_y
            /\ recoil_offset_y = 0 - MAX_RECOIL_OFFSET
                 => recoil_offset_y' = 0 - MAX_RECOIL_OFFSET]_vars

\* C18 witness: with the trigger held two active ticks in a row have each
\* lowered the offset, which is now within one strength of -max_offset
C18_Witness ==
    /\ recoil_active /\ enabled /\ recoil_enabled
    /\ rcPc = "head"
    /\ rcTicks >= 2
    /\ recoil_offset_y < RECOIL_STRENGTH - MAX_RECOIL_OFFSET

\* C19: recovery convergence.  With the trigger released, from every offset
\* in [-max_offset, 0] each recovery tick makes |offset| strictly smaller
\* without changing its sign until it is exactly 0, which takes at most 9
\* ticks, and a recovery tick at 0 leaves 0.
C19_RecoveryConverges ==
    [][RcRecover
         => /\ recoil_offset_y = 0 => recoil_offset_y' = 0
            /\ recoil_offset_y < 0
                 => (recoil_offset_y < recoil_offset_y' /\ recoil_offset_y' <= 0)
            /\ rcTicks' <= 9]_vars

\* C19 witness: with the trigger released the offset has come back to
\* exactly 0 in nine ticks
C19_Witness ==
    /\ ~recoil_active
    /\ rcPc = "head"
    /\ recoil_offset_y = 0
    /\ rcTicks = 9

----------------------------------------------------------------------------
(* Properties of the trigger *)

\* C20: in every reachable state, after any sequence of button presses and
\* releases, recoil-enabled toggles and enable/disable calls, the recoil
\* active flag is true only while the primary button is down (once the
\* button event being delivered, if any, has been handled).
C20_ActiveOnlyWhileHeld ==
    (recoil_active /\ ptrPc # "ck_body") => btn_down

----------------------------------------------------------------------------
(* Properties of the statistics *)

StatKeys == {"total_movements", "total_clicks", "recoil_activations"}

\* what counter k holds in all: its total and its pending value, less the
\* pending value the flush has added to the total and not yet zeroed
Held(k) == stats[k] + stats_pending[k] - wdValue[k]

\* C21: stats conservation.  Every counted event reaches the totals exactly
\* once, whatever the interleaving of the hot path's increments with the
\* watchdog's flush: every step other than a stats reset changes what a
\* counter holds - its total plus what is pending and not yet added to it -
\* by exactly the number of events the step counts, so no increment is lost
\* and none is counted twice.
C21_StatsConservation ==
    [][ResetStats
         \/ \A k \in StatKeys :
              stats'[k] + stats_pending'[k] - wdValue'[k] - Held(k)
                = counted'[k] - counted[k]]_vars

\* C22: each of the three totals is non-decreasing over every step except an
\* explicit stats reset.
C22_TotalsMonotone ==
    [][ResetStats \/ \A k \in StatKeys : stats'[k] >= stats[k]]_vars

\* C22 witness: the watchdog has flushed a movement and a click into the
\* totals and has zeroed the pending bucket
C22_Witness ==
    /\ stats.total_movements >= 1
    /\ stats.total_clicks >= 1
    /\ stats_pending = ZeroStats
    /\ wdPc = "check"

\* the step is the flush zeroing the pending bucket
FlushZeroes == wdPc = "stats_zero" /\ wdPc' = "check"

\* the step is a pointer event that passed the enabled check and the throttle
\* running its body, with a delta outside the squared deadzone
MoveCounted == ptrPc = "mv_lock" /\ ptrPc' # "mv_lock" /\ MoveAccepted

\* the step is the body of a button event that passed the trigger test
\* (primary button, recoil enabled, engine enabled) and reports a press
PressCounted == ptrPc = "ck_body" /\ ptrPc' = "idle" /\ ckPressed

\* C23: counting rules.  Apart from the flush zeroing the bucket, the
\* pending movement counter grows by exactly one in a step that runs an
\* accepted, non-deadzoned pointer event and is unchanged by every other
\* step; the pending click and recoil-activation counters each grow by
\* exactly one in a step that handles a trigger press and are unchanged by
\* every other step (release, other buttons, pointer events), so the two
\* are counted in equal numbers.
C23_CountingRules ==
    [][~FlushZeroes
         => /\ stats_pending'.total_movements
                 = stats_pending.total_movements + (IF MoveCounted THEN 1 ELSE 0)
            /\ stats_pending'.total_clicks
                 = stats_pending.total_clicks + (IF PressCounted THEN 1 ELSE 0)
            /\ stats_pending'.recoil_activations
                 = stats_pending.recoil_activations + (IF PressCounted THEN 1 ELSE 0)
            /\ counted'.total_clicks = counted'.recoil_activations]_vars

\* C23 witness: a movement and a press have been counted, and the release
\* that followed has been handled without counting
C23_Witness ==
    /\ counted.total_movements = 1
    /\ counted.total_clicks = 1
    /\ counted.recoil_activations = 1
    /\ ~btn_down
    /\ ~recoil_active
    /\ ptrPc = "idle"

----------------------------------------------------------------------------
(* Properties of the locking discipline *)

Contexts == {"ptr", "wd", "ctl"}

\* context c is inside a device write: it has set the axes and not yet
\* flushed them (it holds the device-write lock)
InDeviceWrite(c) ==
    \/ c = "ptr" /\ ptrPc \in {"mv_flush", "cm_flush"}
    \/ c = "wd"  /\ wdPc \in {"d_flush", "e_flush"}
    \/ c = "ctl" /\ ctlPc \in {"se_flush", "st_flush"}

\* context c has requested the device-write lock and waits for it
WaitsDeviceLock(c) ==
    \/ c = "ptr" /\ ptrPc \in {"mv_write", "cm_write"}
    \/ c = "wd"  /\ wdPc \in {"d_write", "e_write"}
    \/ c = "ctl" /\ ctlPc \in {"se_write", "st_write"}

\* C24: in no reachable state does a context hold the motion lock and at
\* the same time hold, or wait for, the device-write lock.
C24_MotionLockNotAcrossWrite ==
    \A c \in Contexts :
        mouse_lock = c => ~(gamepad_lock = c \/ InDeviceWrite(c) \/ WaitsDeviceLock(c))

\* the vector context c set the axes to, when it is inside a device write
WriteOf(c) ==
    IF c = "ptr" /\ ptrPc = "mv_flush" THEN <<mvSX, mvSY>>
    ELSE IF c = "ptr" THEN <<clamp(cmX, MIN, MAX), clamp(cmY, MIN, MAX)>>
    ELSE <<CENTER, CENTER>>

\* C25: device writes are serialized.  A context that is inside a device
\* write holds the device-write lock, so at most one context is inside a
\* write, and until it flushes the axes are the ones it set: no other
\* context's write falls between its axis update and its flush.
C25_WritesSerialized ==
    /\ \A c \in Contexts :
          InDeviceWrite(c) => (gamepad_lock = c /\ dev_axes = WriteOf(c))
    /\ \A c, d \in Contexts : (InDeviceWrite(c) /\ InDeviceWrite(d)) => c = d
    /\ gamepad_lock # "free" => InDeviceWrite(gamepad_lock)

\* C25 witness: the pointer context is inside a write of a non-center vector
\* while stop() waits for the device-write lock to write center
C25_Witness ==
    /\ ptrPc = "mv_flush"
    /\ gamepad_lock = "ptr"
    /\ dev_axes # <<CENTER, CENTER>>
    /\ ctlPc = "st_write"

\* a context has requested a lock (motion, device-write or stats) and has
\* not acquired it yet
PtrWaits == ptrPc \in {"mv_lock", "mv_write", "cm_write"}
WdWaits  == wdPc \in {"stats", "d_lock", "e_lock", "d_write", "e_write"}
RcWaits  == rcPc \in {"act", "rec"}
CtlWaits == ctlPc \in {"se_lock", "se_write", "st_write"}

\* C26: no operation blocks indefinitely.  Under fair scheduling every
\* context that has requested a lock goes on to acquire it (so no reachable
\* state is a deadlock on the locks), with the pointer context, the
\* watchdog, the recoil loop and enable/stop running concurrently.
C26_NoIndefiniteBlocking ==
    /\ PtrWaits ~> ~PtrWaits
    /\ WdWaits ~> ~WdWaits
    /\ RcWaits ~> ~RcWaits
    /\ CtlWaits ~> ~CtlWaits

\* C26 witness: the pointer context waits for the motion lock, which
\* set_enabled(False) holds while it is inside its device write, and the
\* watchdog waits for the motion lock as well
C26_Witness ==
    /\ ptrPc = "mv_lock"
    /\ mouse_lock = "ctl"
    /\ ctlPc = "se_flush"
    /\ wdPc = "d_lock"

\* the fields of PointerState, StickState and RecoilState
guardedFields ==
    <<last_x, last_y, last_move_time, last_sent_x, last_sent_y, is_moving,
      recoil_offset_y, recoil_active>>

\* the steps a context makes while it holds the motion lock
MotionLockedStep ==
    \/ OnMoveLocked
    \/ \E ok \in BOOLEAN : OnMoveFlush(ok)
    \/ WdDisabledLock
    \/ WdEnabledLock
    \/ \E ok \in BOOLEAN : WdDisabledFlush(ok) \/ WdEnabledFlush(ok)
    \/ RcActive
    \/ RcRecover
    \/ \E ok \in BOOLEAN : SetEnabledFlush(ok)

\* C27: every mutation of PointerState, StickState and RecoilState is made
\* by a context that holds the motion lock, in every operation.
C27_MutationsUnderMotionLock ==
    [][guardedFields' # guardedFields => MotionLockedStep]_vars

----------------------------------------------------------------------------
(* Properties of the live configuration *)

\* C28: after any sequence of live deadzone changes the squared threshold
\* used by on_move's distance check equals the square of the configured
\* deadzone, which the per-axis check uses.
C28_SquaredThresholdFollowsConfig ==
    deadzone_squared = cfg_deadzone * cfg_deadzone

\* C29: recoil strength is live-mutable.  Every active recoil tick computes
\* its target with the value the config field holds at that moment:
\* target = max(offset - config.recoil_strength, -max_offset).
C29_StrengthIsLive ==
    [][RcActive
         => LET target == MaxOf(recoil_offset_y - cfg_recoil_strength,
                                0 - MAX_RECOIL_OFFSET)
            IN  recoil_offset_y'
                  = TruncDiv(10 * recoil_offset_y + 6 * (target - recoil_offset_y), 10)]_vars

\* C30: with sensitivity 0 no motion reaches the device: a pointer event
\* that runs with config.sens = 0 never hands a non-center vector to the
\* device write, whatever the trigger and the recoil offset are.
C30_ZeroSensitivityWritesNothing ==
    [][(OnMoveLocked /\ cfg_sens[1] = 0 /\ ptrPc' = "mv_write")
         => <<mvSX', mvSY'>> = <<CENTER, CENTER>>]_vars

----------------------------------------------------------------------------
(* Properties of repeated calls *)

\* a step of a set_enabled(False) call
SetEnabledFalseCall ==
    \/ SetEnabledFalseEntry
    \/ SetEnabledLock
    \/ \E ok \in BOOLEAN : SetEnabledWrite(ok) \/ SetEnabledFlush(ok)

\* a step of a stop() call
StopCall ==
    \/ StopEntry
    \/ \E ok \in BOOLEAN : StopWrite(ok) \/ StopFlush(ok)

\* the state a completed set_enabled(False) leaves on an engine with a device
DisabledState ==
    /\ ~enabled
    /\ <<last_sent_x, last_sent_y>> = <<CENTER, CENTER>>
    /\ dev_report = <<CENTER, CENTER>>
    /\ recoil_offset_y = 0
    /\ ~recoil_active
    /\ ~is_moving

\* C31: enable(false) is idempotent.  Once a set_enabled(False) has
\* returned, no step of a further set_enabled(False) changes the engine
\* state, so two calls in a row leave what one call leaves: with a device,
\* enabled false, stick centered, recoil offset 0, active false, is_moving
\* false.
C31_DisableIdempotent ==
    [][(disabledClean /\ SetEnabledFalseCall)
         => /\ UNCHANGED <<running, enabled, recoil_enabled, recoil_active,
                           recoil_offset_y, is_moving, last_sent_x, last_sent_y,
                           last_x, last_y, last_move_time, dev_report, listener>>
            /\ gamepad => DisabledState']_vars

\* C31 witness: a second set_enabled(False) is inside its device write, on
\* the engine state the first call left
C31_Witness ==
    /\ disabledClean
    /\ ctlPc = "se_flush"
    /\ DisabledState

----------------------------------------------------------------------------
(* Properties of the pointer path *)

\* an event arrives at an enabled engine inside the throttle window
ThrottledEvent ==
    /\ enabled /\ gamepad
    /\ now - last_update_time < UPDATE_THRESHOLD_MS
    /\ \E x \in MoveXs, y \in MoveYs : OnMoveEntry(x, y)

\* C33: the throttle loses no motion.  An event dropped by the throttle
\* changes no state; an event that passes it leaves last_x/last_y at its own
\* coordinates; and the sum of all deltas computed so far (from the initial
\* position) always equals the last observed position, so the delta of an
\* accepted event covers everything dropped before it.
C33_ThrottleLosesNoMotion ==
    /\ [](integrated = <<last_x, last_y>>)
    /\ [][OnMoveLocked => <<last_x', last_y'>> = <<mvX, mvY>>]_vars
    /\ [][ThrottledEvent => UNCHANGED vars]_vars

\* C33 witness: an event has been accepted and has moved the last observed
\* position, and the throttle window it opened is still open: every event
\* arriving now is dropped
C33_Witness ==
    /\ ptrPc = "idle"
    /\ enabled /\ gamepad
    /\ counted.total_movements < MaxMoves
    /\ now - last_update_time < UPDATE_THRESHOLD_MS
    /\ last_y = 1
    /\ integrated = <<last_x, last_y>>

----------------------------------------------------------------------------
(* Properties of the lifecycle *)

\* C34: in every reachable state, enabled implies that start() has
\* succeeded and stop() has not been called since.
C34_EnabledImpliesStarted == enabled => lifecycle = "started"

----------------------------------------------------------------------------
(* Properties of the recoil offset *)

\* C35: if the trigger stays held with the engine and recoil enabled, the
\* recoil offset eventually becomes exactly -max_offset.  (Nothing in the
\* recoil specification releases the trigger or disables anything, so a held
\* trigger stays held.)
C35_FloorReached ==
    (recoil_active /\ enabled /\ recoil_enabled)
        ~> (recoil_offset_y = 0 - MAX_RECOIL_OFFSET)


\* C36: in every reachable state the recoil offset is an integer between
\* -max_offset and 0.
C36_OffsetInRange ==
    /\ recoil_offset_y \in Int
    /\ 0 - MAX_RECOIL_OFFSET <= recoil_offset_y
    /\ recoil_offset_y <= 0

\* C36 witness: an active tick has brought the offset to one above the floor
\* (where further active ticks leave it)
C36_Witness ==
    /\ recoil_active /\ enabled /\ recoil_enabled
    /\ rcPc = "head"
    /\ rcTicks >= 1
    /\ recoil_offset_y = 1 - MAX_RECOIL_OFFSET

----------------------------------------------------------------------------
(* Properties of the committed vector *)

\* a device write is in progress: some context is between taking the
\* device-write lock and releasing it
DeviceWriteInProgress == gamepad_lock # "free"

\* C37: the last committed vector mirrors the device.  Whenever no device
\* write is in progress, (last_sent_x, last_sent_y) equals the vector most
\* recently written to the device (center if none was written).
C37_LastSentMirrorsDevice ==
    ~DeviceWriteInProgress => <<last_sent_x, last_sent_y>> = dev_report


\* C38: whenever the motion lock is free, a non-centered last committed
\* vector implies is_moving.
C38_DeflectedImpliesMoving ==
    (mouse_lock = "free" /\ <<last_sent_x, last_sent_y>> # <<CENTER, CENTER>>)
        => is_moving

\* C38 witness: an event has deflected the stick and the pointer context
\* has released the motion lock
C38_Witness ==
    /\ mouse_lock = "free"
    /\ ptrPc = "idle"
    /\ last_sent_x # CENTER
    /\ dev_report[1] = last_sent_x
    /\ is_moving

----------------------------------------------------------------------------
(* Properties of the recoil loop's frame *)

\* C39: a recoil-loop tick, active or recovering, changes only the recoil
\* offset: it writes nothing to the device and leaves the last committed
\* vector, is_moving, the pointer state and the stats unchanged.
C39_TickChangesOnlyOffset ==
    [][(RcActive \/ RcRecover)
         => UNCHANGED <<devVars, last_sent_x, last_sent_y, is_moving,
                        last_x, last_y, last_move_time, last_update_time,
                        stats, stats_pending,
                        running, enabled, recoil_enabled, recoil_active>>]_vars

\* C39 witness: active ticks have lowered the offset and the device and the
\* last committed vector are still at center
C39_Witness ==
    /\ rcPc = "head"
    /\ rcTicks >= 1
    /\ recoil_active
    /\ recoil_offset_y < 0
    /\ dev_report = <<CENTER, CENTER>>
    /\ dev_by = "none"
    /\ <<last_sent_x, last_sent_y>> = <<CENTER, CENTER>>

----------------------------------------------------------------------------
(* Properties of idle recentering *)

\* the enabled branch of the watchdog takes the motion lock and evaluates
\* its condition
WdEnabledDecides == wdPc = "e_lock" /\ WdEnabledLock

\* C40: pointer events filtered by the deadzone do not postpone idle
\* recentering.  Whenever the watchdog of an enabled engine evaluates its
\* condition with is_moving true and more than reset_delay elapsed since the
\* last non-deadzoned motion, it recenters the stick.
C40_FilteredEventsDoNotPostpone ==
    [][(WdEnabledDecides /\ gamepad /\ is_moving
          /\ now - motion_time > RESET_DELAY_MS)
         => wdPc' = "e_write"]_vars

\* C40 as the code has it: every event that passes the throttle, filtered
\* by the deadzone or not, refreshes last_move_time, and the watchdog of an
\* enabled engine recenters exactly when is_moving is true and more than
\* reset_delay has elapsed since the last event that passed the throttle; so
\* filtered events do postpone recentering.
C40_RecenterFollowsLastEvent ==
    /\ [][OnMoveLocked => last_move_time' = mvT]_vars
    /\ [][(WdEnabledDecides /\ gamepad)
            => (wdPc' = "e_write"
                  <=> (is_moving /\ now - last_move_time > RESET_DELAY_MS))]_vars

\* C40 witness: the stick is deflected, more than reset_delay has elapsed
\* since the last non-deadzoned motion, a filtered event has just refreshed
\* last_move_time, and the watchdog is about to evaluate its condition
C40_Witness ==
    /\ wdPc = "e_lock"
    /\ ptrPc = "idle"
    /\ mouse_lock = "free"
    /\ is_moving
    /\ last_sent_x # CENTER
    /\ now - motion_time > RESET_DELAY_MS
    /\ last_move_time = now

====
